---- MODULE Spec2Model ----
(***************************************************************************)
(* Control-plane model of the gc02m1, s5k5e9 and gc8034 camera sensor      *)
(* drivers (drivers/media/i2c): register-table programming, runtime power  *)
(* references, and the s_stream / s_power / set_fmt / set_ctrl entry       *)
(* points.  Register addresses and values are written in decimal.          *)
(***************************************************************************)
EXTENDS Integers, Sequences, FiniteSets, TLC

(***************************************************************************)
(* Bounds of the model (not program constants).                            *)
(***************************************************************************)
\* Number of threads that call into one driver instance concurrently.
NThreads == 2
\* A single failing bus transaction is injected at position 1..MaxFailAt of
\* the transactions of one step (besides "none fails" and "all fail").
MaxFailAt == 1
\* Cap on the runtime-PM usage count (gc02m1/s5k5e9 take one per s_stream(1)).
MaxUsage == 2
\* Longest generated register table (entries before the terminator).
MaxTableLen == 5
\* Number of faults (a failing power_on step, a failing bus transaction on a
\* powered sensor) injected in one behaviour.
MaxFaults == 1
\* Cap on the outstanding supply enables (s5k5e9 never disables its supplies).
MaxSupply == 3

\* In the runs of a table interpreter on its own, the single failing bus
\* transaction is at position 1..MaxTableFailAt.
MaxTableFailAt == 2

\* Number of runtime resume / suspend pairs in a run of the power sequencer.
MaxPairs == 3

\* Longest generated mode catalog.
MaxModes == 3

(***************************************************************************)
(* Program constants.                                                      *)
(***************************************************************************)
GC02M1_TABLE_WAIT_MS == 0
GC02M1_TABLE_END == 1
S5K5E9_TABLE_WAIT_MS == 0
S5K5E9_TABLE_END == 1
MAX_CMD == 4
REG_NULL == 255
EIO == 5
EINVAL == 22

\* mode_table_common, gc02m1.c lines 143-374 (addresses and values in decimal).
gc02m1_mode_table_common ==
  <<<<252, 1>>, <<244, 65>>, <<245, 192>>, <<246, 68>>, <<248, 56>>, <<249, 130>>, <<250, 0>>, <<253, 128>>,
    <<252, 129>>, <<254, 3>>, <<1, 11>>, <<247, 1>>, <<252, 128>>, <<252, 128>>, <<252, 128>>, <<252, 142>>,
    <<254, 0>>, <<135, 9>>, <<238, 114>>, <<254, 1>>, <<140, 144>>, <<254, 0>>, <<144, 0>>, <<3, 4>>,
    <<4, 125>>, <<65, 4>>, <<66, 244>>, <<5, 4>>, <<6, 72>>, <<7, 0>>, <<8, 24>>, <<157, 24>>,
    <<9, 0>>, <<10, 2>>, <<13, 4>>, <<14, 188>>, <<23, 128>>, <<25, 4>>, <<36, 0>>, <<86, 32>>,
    <<91, 0>>, <<94, 1>>, <<33, 60>>, <<68, 32>>, <<204, 1>>, <<26, 4>>, <<31, 17>>, <<39, 48>>,
    <<43, 0>>, <<51, 0>>, <<83, 144>>, <<230, 80>>, <<57, 7>>, <<67, 4>>, <<70, 42>>, <<124, 160>>,
    <<208, 190>>, <<209, 96>>, <<210, 64>>, <<211, 243>>, <<222, 29>>, <<205, 5>>, <<206, 111>>, <<252, 136>>,
    <<254, 16>>, <<254, 0>>, <<252, 142>>, <<254, 0>>, <<254, 0>>, <<254, 0>>, <<254, 0>>, <<252, 136>>,
    <<254, 16>>, <<254, 0>>, <<252, 142>>, <<254, 4>>, <<224, 1>>, <<254, 0>>, <<254, 1>>, <<83, 68>>,
    <<135, 83>>, <<137, 3>>, <<254, 0>>, <<176, 116>>, <<177, 4>>, <<178, 0>>, <<182, 0>>, <<254, 4>>,
    <<216, 0>>, <<192, 64>>, <<192, 0>>, <<192, 0>>, <<192, 0>>, <<192, 96>>, <<192, 0>>, <<192, 192>>,
    <<192, 42>>, <<192, 128>>, <<192, 0>>, <<192, 0>>, <<192, 64>>, <<192, 160>>, <<192, 0>>, <<192, 144>>,
    <<192, 25>>, <<192, 192>>, <<192, 0>>, <<192, 208>>, <<192, 47>>, <<192, 224>>, <<192, 0>>, <<192, 144>>,
    <<192, 57>>, <<192, 0>>, <<192, 1>>, <<192, 32>>, <<192, 4>>, <<192, 32>>, <<192, 1>>, <<192, 224>>,
    <<192, 15>>, <<192, 64>>, <<192, 1>>, <<192, 224>>, <<192, 26>>, <<192, 96>>, <<192, 1>>, <<192, 32>>,
    <<192, 37>>, <<192, 128>>, <<192, 1>>, <<192, 160>>, <<192, 44>>, <<192, 160>>, <<192, 1>>, <<192, 224>>,
    <<192, 50>>, <<192, 192>>, <<192, 1>>, <<192, 32>>, <<192, 56>>, <<192, 224>>, <<192, 1>>, <<192, 96>>,
    <<192, 60>>, <<192, 0>>, <<192, 2>>, <<192, 160>>, <<192, 64>>, <<192, 128>>, <<192, 2>>, <<192, 24>>,
    <<192, 92>>, <<254, 0>>, <<159, 16>>, <<254, 0>>, <<38, 32>>, <<254, 1>>, <<64, 34>>, <<70, 127>>,
    <<73, 15>>, <<74, 240>>, <<254, 4>>, <<20, 128>>, <<21, 128>>, <<22, 128>>, <<23, 128>>, <<254, 1>>,
    <<65, 32>>, <<76, 0>>, <<77, 12>>, <<68, 8>>, <<72, 3>>, <<254, 1>>, <<144, 1>>, <<145, 0>>,
    <<146, 6>>, <<147, 0>>, <<148, 6>>, <<149, 4>>, <<150, 176>>, <<151, 6>>, <<152, 64>>, <<254, 3>>,
    <<1, 35>>, <<3, 206>>, <<4, 72>>, <<21, 0>>, <<33, 16>>, <<34, 5>>, <<35, 32>>, <<37, 32>>,
    <<38, 8>>, <<41, 6>>, <<42, 10>>, <<43, 8>>, <<254, 1>>, <<140, 16>>, <<254, 0>>, <<62, 0>>,
    <<0, 10>>, <<1, 0>>>>

\* mode_1600x1200, gc02m1.c lines 390-400 (addresses and values in decimal).
mode_1600x1200 ==
  <<<<254, 0>>, <<62, 144>>, <<0, 10>>, <<1, 0>>>>

\* mode_1600x1200_custom1, gc02m1.c lines 403-424 (addresses and values in decimal).
mode_1600x1200_custom1 ==
  <<<<65, 6>>, <<66, 60>>, <<7, 1>>, <<8, 96>>, <<62, 144>>, <<254, 0>>, <<254, 0>>, <<128, 0>>,
    <<130, 8>>, <<131, 10>>, <<136, 0>>, <<137, 4>>, <<138, 0>>, <<139, 18>>, <<127, 41>>, <<133, 81>>,
    <<254, 0>>, <<0, 10>>, <<1, 0>>>>

\* mode_2592x1940_regs, s5k5e9.c lines 166-226 (addresses and values in decimal).
mode_2592x1940_regs ==
  <<<<256, 0>>, <<310, 19>>, <<311, 51>>, <<773, 3>>, <<774, 0>>, <<775, 89>>, <<781, 3>>, <<782, 0>>,
    <<783, 137>>, <<15391, 0>>, <<15383, 0>>, <<274, 10>>, <<275, 10>>, <<276, 1>>, <<2080, 3>>, <<2081, 108>>,
    <<2082, 0>>, <<2083, 0>>, <<14633, 15>>, <<836, 0>>, <<837, 8>>, <<838, 0>>, <<839, 8>>, <<840, 10>>,
    <<841, 39>>, <<842, 7>>, <<843, 159>>, <<844, 10>>, <<845, 32>>, <<846, 7>>, <<847, 152>>, <<2304, 0>>,
    <<2305, 0>>, <<897, 1>>, <<899, 1>>, <<901, 1>>, <<903, 1>>, <<257, 0>>, <<832, 7>>, <<833, 238>>,
    <<834, 12>>, <<835, 40>>, <<512, 11>>, <<513, 156>>, <<514, 0>>, <<515, 2>>, <<12472, 46>>, <<12474, 54>>,
    <<260, 0>>, <<832, 7>>, <<833, 238>>, <<514, 0>>, <<515, 169>>, <<516, 0>>, <<517, 32>>, <<260, 0>>,
    <<0, 10>>, <<1, 0>>>>

\* mode_table_common, s5k5e9.c lines 292-337 (addresses and values in decimal).
s5k5e9_mode_table_common ==
  <<<<256, 0>>, <<15173, 1>>, <<2821, 1>>, <<14639, 1>>, <<14640, 0>>, <<14628, 127>>, <<14629, 253>>, <<15368, 255>>,
    <<15369, 255>>, <<15370, 5>>, <<15409, 255>>, <<15410, 255>>, <<12944, 16>>, <<12800, 1>>, <<12404, 6>>, <<12405, 47>>,
    <<12426, 32>>, <<12427, 8>>, <<12428, 11>>, <<12417, 7>>, <<12411, 133>>, <<12410, 10>>, <<12409, 10>>, <<12398, 113>>,
    <<12399, 40>>, <<12319, 32>>, <<12306, 78>>, <<12395, 154>>, <<12433, 22>>, <<12484, 6>>, <<12394, 121>>, <<12464, 255>>,
    <<12397, 8>>, <<12420, 22>>, <<12400, 15>>, <<12482, 5>>, <<12393, 135>>, <<15375, 0>>, <<12419, 20>>, <<12416, 8>>,
    <<1, 0>>>>

\* gc8034_global_regs_2lane, gc8034.c lines 216-619 (addresses and values in decimal).
gc8034_global_regs_2lane ==
  <<<<242, 0>>, <<244, 144>>, <<245, 61>>, <<246, 68>>, <<248, 99>>, <<250, 66>>, <<249, 0>>, <<247, 149>>,
    <<252, 0>>, <<252, 0>>, <<252, 234>>, <<254, 3>>, <<3, 154>>, <<252, 238>>, <<254, 0>>, <<136, 3>>,
    <<254, 0>>, <<3, 8>>, <<4, 198>>, <<5, 2>>, <<6, 22>>, <<7, 0>>, <<8, 16>>, <<10, 58>>,
    <<11, 0>>, <<12, 4>>, <<13, 9>>, <<14, 160>>, <<15, 12>>, <<16, 212>>, <<23, 192>>, <<24, 2>>,
    <<25, 23>>, <<30, 80>>, <<31, 128>>, <<33, 76>>, <<37, 0>>, <<40, 74>>, <<45, 137>>, <<202, 2>>,
    <<203, 0>>, <<204, 57>>, <<206, 208>>, <<207, 147>>, <<208, 27>>, <<209, 170>>, <<210, 203>>, <<216, 64>>,
    <<217, 255>>, <<218, 14>>, <<219, 176>>, <<220, 14>>, <<222, 8>>, <<228, 198>>, <<229, 8>>, <<230, 16>>,
    <<237, 42>>, <<254, 2>>, <<89, 2>>, <<90, 4>>, <<91, 8>>, <<92, 32>>, <<254, 0>>, <<26, 9>>,
    <<29, 19>>, <<254, 16>>, <<254, 0>>, <<254, 16>>, <<254, 0>>, <<254, 0>>, <<32, 84>>, <<51, 130>>,
    <<254, 1>>, <<223, 6>>, <<231, 24>>, <<232, 32>>, <<233, 22>>, <<234, 23>>, <<235, 80>>, <<236, 108>>,
    <<237, 155>>, <<238, 216>>, <<254, 0>>, <<128, 19>>, <<132, 1>>, <<137, 3>>, <<141, 3>>, <<143, 20>>,
    <<173, 0>>, <<102, 12>>, <<188, 9>>, <<194, 127>>, <<195, 255>>, <<144, 1>>, <<146, 8>>, <<148, 9>>,
    <<149, 9>>, <<150, 144>>, <<151, 12>>, <<152, 192>>, <<176, 144>>, <<177, 1>>, <<178, 0>>, <<182, 0>>,
    <<254, 0>>, <<64, 34>>, <<65, 32>>, <<66, 2>>, <<67, 8>>, <<78, 15>>, <<79, 240>>, <<88, 128>>,
    <<89, 128>>, <<90, 128>>, <<91, 128>>, <<92, 0>>, <<93, 0>>, <<94, 0>>, <<95, 0>>, <<107, 1>>,
    <<108, 0>>, <<109, 12>>, <<254, 1>>, <<191, 64>>, <<254, 1>>, <<104, 119>>, <<254, 1>>, <<96, 0>>,
    <<97, 16>>, <<98, 96>>, <<99, 48>>, <<100, 0>>, <<254, 1>>, <<168, 96>>, <<162, 209>>, <<200, 87>>,
    <<161, 184>>, <<163, 145>>, <<192, 80>>, <<208, 5>>, <<209, 178>>, <<210, 31>>, <<211, 0>>, <<212, 0>>,
    <<213, 0>>, <<214, 0>>, <<215, 0>>, <<216, 0>>, <<217, 0>>, <<164, 16>>, <<165, 32>>, <<166, 96>>,
    <<167, 128>>, <<171, 24>>, <<199, 192>>, <<254, 1>>, <<32, 2>>, <<33, 2>>, <<35, 66>>, <<254, 3>>,
    <<1, 7>>, <<2, 4>>, <<4, 128>>, <<17, 43>>, <<18, 240>>, <<19, 15>>, <<21, 16>>, <<22, 41>>,
    <<23, 255>>, <<24, 1>>, <<25, 170>>, <<26, 2>>, <<33, 12>>, <<34, 14>>, <<35, 69>>, <<36, 1>>,
    <<37, 28>>, <<38, 11>>, <<41, 14>>, <<42, 29>>, <<43, 11>>, <<254, 0>>, <<63, 0>>, <<255, 0>>>>

\* gc8034_3264x2448_regs_2lane, gc8034.c lines 699-824 (addresses and values in decimal).
gc8034_3264x2448_regs_2lane ==
  <<<<242, 0>>, <<244, 144>>, <<245, 61>>, <<246, 68>>, <<248, 99>>, <<250, 66>>, <<249, 0>>, <<247, 149>>,
    <<252, 0>>, <<252, 0>>, <<252, 234>>, <<254, 3>>, <<3, 154>>, <<252, 238>>, <<254, 0>>, <<63, 0>>,
    <<254, 16>>, <<254, 0>>, <<254, 16>>, <<254, 0>>, <<254, 0>>, <<128, 19>>, <<173, 0>>, <<102, 12>>,
    <<188, 6>>, <<144, 1>>, <<146, 8>>, <<148, 9>>, <<149, 9>>, <<150, 144>>, <<151, 12>>, <<152, 192>>,
    <<254, 3>>, <<1, 7>>, <<2, 4>>, <<4, 128>>, <<17, 43>>, <<18, 240>>, <<19, 15>>, <<21, 16>>,
    <<22, 41>>, <<23, 255>>, <<24, 1>>, <<25, 170>>, <<26, 2>>, <<33, 12>>, <<34, 12>>, <<35, 86>>,
    <<36, 0>>, <<37, 28>>, <<38, 11>>, <<41, 14>>, <<42, 29>>, <<43, 11>>, <<254, 0>>, <<63, 0>>,
    <<255, 0>>>>

\* gc8034_global_regs_4lane, gc8034.c lines 829-1084 (addresses and values in decimal).
gc8034_global_regs_4lane ==
  <<<<242, 0>>, <<244, 128>>, <<245, 25>>, <<246, 68>>, <<248, 99>>, <<250, 69>>, <<249, 0>>, <<247, 157>>,
    <<252, 0>>, <<252, 0>>, <<252, 234>>, <<254, 3>>, <<3, 154>>, <<24, 7>>, <<1, 7>>, <<252, 238>>,
    <<254, 0>>, <<3, 8>>, <<4, 198>>, <<5, 2>>, <<6, 22>>, <<7, 0>>, <<8, 16>>, <<10, 58>>,
    <<11, 0>>, <<12, 4>>, <<13, 9>>, <<14, 160>>, <<15, 12>>, <<16, 212>>, <<23, 192>>, <<24, 2>>,
    <<25, 23>>, <<30, 80>>, <<31, 128>>, <<33, 76>>, <<37, 0>>, <<40, 74>>, <<45, 137>>, <<202, 2>>,
    <<203, 0>>, <<204, 57>>, <<206, 208>>, <<207, 147>>, <<208, 25>>, <<209, 170>>, <<210, 203>>, <<216, 64>>,
    <<217, 255>>, <<218, 14>>, <<219, 176>>, <<220, 14>>, <<222, 8>>, <<228, 198>>, <<229, 8>>, <<230, 16>>,
    <<237, 42>>, <<254, 2>>, <<89, 2>>, <<90, 4>>, <<91, 8>>, <<92, 32>>, <<254, 0>>, <<26, 9>>,
    <<29, 19>>, <<254, 16>>, <<254, 0>>, <<254, 16>>, <<254, 0>>, <<254, 0>>, <<32, 85>>, <<51, 131>>,
    <<254, 1>>, <<223, 6>>, <<231, 24>>, <<232, 32>>, <<233, 22>>, <<234, 23>>, <<235, 80>>, <<236, 108>>,
    <<237, 155>>, <<238, 216>>, <<254, 0>>, <<128, 16>>, <<132, 1>>, <<136, 3>>, <<137, 3>>, <<141, 3>>,
    <<143, 20>>, <<173, 48>>, <<102, 44>>, <<188, 73>>, <<194, 127>>, <<195, 255>>, <<144, 1>>, <<146, 8>>,
    <<148, 9>>, <<149, 4>>, <<150, 200>>, <<151, 6>>, <<152, 96>>, <<176, 144>>, <<177, 1>>, <<178, 0>>,
    <<182, 0>>, <<254, 0>>, <<64, 34>>, <<65, 32>>, <<66, 2>>, <<67, 8>>, <<78, 15>>, <<79, 240>>,
    <<88, 128>>, <<89, 128>>, <<90, 128>>, <<91, 128>>, <<92, 0>>, <<93, 0>>, <<94, 0>>, <<95, 0>>,
    <<107, 1>>, <<108, 0>>, <<109, 12>>, <<254, 1>>, <<191, 64>>, <<254, 1>>, <<104, 119>>, <<254, 1>>,
    <<96, 0>>, <<97, 16>>, <<98, 40>>, <<99, 16>>, <<100, 2>>, <<254, 1>>, <<168, 96>>, <<162, 209>>,
    <<200, 87>>, <<161, 184>>, <<163, 145>>, <<192, 80>>, <<208, 5>>, <<209, 178>>, <<210, 31>>, <<211, 0>>,
    <<212, 0>>, <<213, 0>>, <<214, 0>>, <<215, 0>>, <<216, 0>>, <<217, 0>>, <<164, 16>>, <<165, 32>>,
    <<166, 96>>, <<167, 128>>, <<171, 24>>, <<199, 192>>, <<254, 1>>, <<32, 2>>, <<33, 2>>, <<35, 66>>,
    <<254, 3>>, <<2, 3>>, <<4, 128>>, <<17, 43>>, <<18, 248>>, <<19, 7>>, <<21, 16>>, <<22, 41>>,
    <<23, 255>>, <<25, 170>>, <<26, 2>>, <<33, 2>>, <<34, 3>>, <<35, 10>>, <<36, 0>>, <<37, 18>>,
    <<38, 4>>, <<41, 4>>, <<42, 2>>, <<43, 4>>, <<254, 0>>, <<63, 0>>, <<242, 0>>, <<244, 128>>,
    <<245, 25>>, <<246, 68>>, <<248, 99>>, <<250, 69>>, <<249, 0>>, <<247, 149>>, <<252, 0>>, <<252, 0>>,
    <<252, 234>>, <<254, 3>>, <<3, 154>>, <<24, 7>>, <<1, 7>>, <<252, 238>>, <<254, 0>>, <<128, 19>>,
    <<173, 0>>, <<144, 1>>, <<146, 8>>, <<148, 9>>, <<149, 9>>, <<150, 144>>, <<151, 12>>, <<152, 192>>,
    <<254, 1>>, <<98, 96>>, <<99, 72>>, <<254, 3>>, <<2, 3>>, <<4, 128>>, <<17, 43>>, <<18, 240>>,
    <<19, 15>>, <<21, 16>>, <<22, 41>>, <<23, 255>>, <<25, 170>>, <<26, 2>>, <<33, 5>>, <<34, 6>>,
    <<35, 43>>, <<36, 0>>, <<37, 18>>, <<38, 7>>, <<41, 7>>, <<42, 18>>, <<43, 7>>, <<254, 0>>,
    <<63, 0>>, <<255, 0>>>>

\* gc8034_3264x2448_regs_4lane, gc8034.c lines 1091-1093 (addresses and values in decimal).
gc8034_3264x2448_regs_4lane ==
  <<<<255, 0>>>>

\* gc8034_global_regs_test_pattern, gc8034.c lines 1850-1869 (no terminator entry).
gc8034_global_regs_test_pattern ==
  <<<<252, 0>>, <<244, 128>>, <<245, 25>>, <<248, 99>>, <<250, 69>>, <<252, 0>>, <<252, 254>>, <<254, 3>>,
    <<33, 5>>, <<34, 6>>, <<35, 22>>, <<37, 18>>, <<38, 7>>, <<41, 7>>, <<42, 8>>, <<43, 7>>,
    <<254, 0>>, <<140, 1>>>>

(***************************************************************************)
(* RegisterLink: bus transactions and injected bus faults.                 *)
(***************************************************************************)
\* One bus transaction: vals written to consecutive registers from addr.
\* src names the code site that issued it, ok is the result of the bus.
BusWrite(src, addr, vals, ok) ==
  [src |-> src, addr |-> addr, vals |-> vals, ok |-> ok]

\* A fault pattern makes the transactions numbered lo..hi of one step fail.
NoFault == [lo |-> 1, hi |-> 0]
DeadBus == [lo |-> 1, hi |-> 1000000]
Faults == {NoFault, DeadBus} \cup {[lo |-> k, hi |-> k] : k \in 1..MaxFailAt}
Fails(f, n) == f.lo <= n /\ n <= f.hi

\* ret |= x on error codes: zero only when both are zero.
OrRet(a, b) == IF a = 0 THEN b ELSE a

\* The registers a list of transactions writes, one <<addr, val>> per
\* register, in bus order.
RECURSIVE Flatten(_)
Flatten(bus) ==
  IF Len(bus) = 0 THEN <<>>
  ELSE IF Len(bus) = 1 THEN
    [j \in 1..Len(bus[1].vals) |-> <<bus[1].addr + j - 1, bus[1].vals[j]>>]
  ELSE LET mid == Len(bus) \div 2
       IN  Flatten(SubSeq(bus, 1, mid)) \o Flatten(SubSeq(bus, mid + 1, Len(bus)))

(***************************************************************************)
(* RegisterTableInterpreter: gc02m1_write_table / s5k5e9_write_table.      *)
(***************************************************************************)
\* BurstLen without the address comparison: any following register entry
\* joins the burst, whatever its address.
BurstLenLoose(T, p) ==
  LET match(i) ==
        /\ p + i <= Len(T)
        /\ T[p + i][1] \notin {GC02M1_TABLE_WAIT_MS, GC02M1_TABLE_END}
  IN  CHOOSE i \in 1..MAX_CMD :
        /\ \A j \in 1..(i - 1) : match(j)
        /\ i = MAX_CMD \/ ~match(i)

\* BurstLen with the loop bound off by one: a burst may take MAX_CMD + 1
\* entries.
BurstLenOffByOne(T, p) ==
  LET match(i) == p + i <= Len(T) /\ T[p + i][1] = T[p][1] + i
  IN  CHOOSE i \in 1..(MAX_CMD + 1) :
        /\ \A j \in 0..(i - 1) : match(j)
        /\ i = MAX_CMD + 1 \/ ~match(i)

\* The inner for loop: i counts the entries from the cursor p whose address
\* is table[0].addr + i, at most MAX_CMD of them.
BurstLen(T, p) ==
  LET match(i) == p + i <= Len(T) /\ T[p + i][1] = T[p][1] + i
  IN  CHOOSE i \in 1..MAX_CMD :
        /\ \A j \in 0..(i - 1) : match(j)
        /\ i = MAX_CMD \/ ~match(i)

\* WalkTable without the early return: a failed write is remembered and the
\* rest of the table is still written.
RECURSIVE WalkTableKeepGoing(_, _, _, _, _, _, _)
WalkTableKeepGoing(T, p, n, f, src, WAIT, END) ==
  IF T[p][1] = END THEN [bus |-> <<>>, ret |-> 0, slept |-> 0]
  ELSE IF T[p][1] = WAIT THEN
    LET r == WalkTableKeepGoing(T, p + 1, n, f, src, WAIT, END)
    IN  [r EXCEPT !.slept = @ + T[p][2]]
  ELSE
    LET i == BurstLen(T, p)
        w == BusWrite(src, T[p][1], [j \in 1..i |-> T[p + j - 1][2]],
                      ~Fails(f, n + 1))
        r == WalkTableKeepGoing(T, p + i, n + 1, f, src, WAIT, END)
    IN  [r EXCEPT !.bus = <<w>> \o @,
                  !.ret = IF w.ok THEN @ ELSE 0 - EIO]

\* The outer loop from cursor p, n transactions issued so far in this step.
RECURSIVE WalkTable(_, _, _, _, _, _, _)
WalkTable(T, p, n, f, src, WAIT, END) ==
  IF T[p][1] = END THEN [bus |-> <<>>, ret |-> 0, slept |-> 0]
  ELSE IF T[p][1] = WAIT THEN
    LET r == WalkTable(T, p + 1, n, f, src, WAIT, END)
    IN  [r EXCEPT !.slept = @ + T[p][2]]
  ELSE
    LET i == BurstLen(T, p)
        w == BusWrite(src, T[p][1], [j \in 1..i |-> T[p + j - 1][2]],
                      ~Fails(f, n + 1))
    IN  IF ~w.ok THEN [bus |-> <<w>>, ret |-> 0 - EIO, slept |-> 0]
        ELSE LET r == WalkTable(T, p + i, n + 1, f, src, WAIT, END)
             IN  [r EXCEPT !.bus = <<w>> \o @]

gc02m1_write_table(T, f, src) ==
  WalkTable(T, 1, 0, f, src, GC02M1_TABLE_WAIT_MS, GC02M1_TABLE_END)

s5k5e9_write_table(T, f, src) ==
  WalkTable(T, 1, 0, f, src, S5K5E9_TABLE_WAIT_MS, S5K5E9_TABLE_END)

(***************************************************************************)
(* gc8034_write_array: single-register writes up to REG_NULL, stopping at  *)
(* the first failure.  n transactions were issued before it in this step.  *)
(***************************************************************************)
RECURSIVE WalkArray(_, _, _, _, _, _)
\* The loop over regs[lo..hi] in order, split in halves so that the
\* evaluation stays shallow; stop is set at REG_NULL or at a failed write.
WalkArray(regs, lo, hi, n, f, src) ==
  IF lo = hi THEN
    IF regs[lo][1] = REG_NULL THEN [bus |-> <<>>, ret |-> 0, stop |-> TRUE]
    ELSE LET w == BusWrite(src, regs[lo][1], <<regs[lo][2]>>, ~Fails(f, n + 1))
         IN  [bus |-> <<w>>, ret |-> IF w.ok THEN 0 ELSE 0 - EIO, stop |-> ~w.ok]
  ELSE
    LET mid == (lo + hi) \div 2
        a   == WalkArray(regs, lo, mid, n, f, src)
    IN  IF a.stop THEN a
        ELSE LET b == WalkArray(regs, mid + 1, hi, n + Len(a.bus), f, src)
             IN  [bus |-> a.bus \o b.bus, ret |-> b.ret, stop |-> b.stop]

gc8034_write_array(regs, n, f, src) ==
  LET r == WalkArray(regs, 1, Len(regs), n, f, src)
  IN  [bus |-> r.bus, ret |-> r.ret]

(***************************************************************************)
(* Generated register tables for checking the interpreters: every entry is *)
(* a delay or a register whose address is the previous register address    *)
(* +1, +0, +16 or -1; values identify the position of the entry.           *)
(***************************************************************************)
Deltas == {"wait", "next", "same", "gap", "back"}
GenValue(i) == 160 + i

RECURSIVE BuildTable(_, _, _, _)
BuildTable(D, i, last, END) ==
  IF i > Len(D) THEN << <<END, 0>> >>
  ELSE IF D[i] = "wait" THEN
    << <<0, 10>> >> \o BuildTable(D, i + 1, last, END)
  ELSE
    LET a == CASE D[i] = "next" -> last + 1
               [] D[i] = "same" -> last
               [] D[i] = "gap"  -> last + 16
               [] D[i] = "back" -> last - 1
    IN  << <<a, GenValue(i)>> >> \o BuildTable(D, i + 1, a, END)

\* Tables written out by hand: registers 16, 17, 18 and 32; five consecutive
\* registers with a delay after them; one register three times; register 255
\* followed by a delay (address 0) and the terminator.
ExampleTables(END) ==
  { << <<16, 161>>, <<17, 162>>, <<18, 163>>, <<32, 164>>, <<END, 0>> >>,
    << <<16, 161>>, <<17, 162>>, <<18, 163>>, <<19, 164>>, <<20, 165>>,
       <<0, 10>>, <<END, 0>> >>,
    << <<48, 161>>, <<48, 162>>, <<48, 163>>, <<END, 0>> >>,
    << <<255, 161>>, <<0, 10>>, <<END, 0>> >> }

GenTables(END) ==
  {BuildTable(D, 1, 15, END) :
     D \in UNION {[1..n -> Deltas] : n \in 0..MaxTableLen}}

(***************************************************************************)
(* PowerSequencer: supplies, external clock and GPIO lines.                *)
(*   hw.supply  number of outstanding supply enables                       *)
(*   hw.clk     number of outstanding clock enables                        *)
(*   hw.unbal   a clock disable was issued while the clock was not enabled *)
(*   hw.gpio    level of each GPIO line                                    *)
(***************************************************************************)
Variants == {"gc02m1", "s5k5e9", "gc8034"}

\* The step of power_on that fails ("none": all succeed).
PowerFaults(v) ==
  IF v = "s5k5e9" THEN {"none", "reg", "clk", "id"} ELSE {"none", "reg", "clk"}

ClkDisable(h) ==
  IF h.clk > 0 THEN [h EXCEPT !.clk = @ - 1] ELSE [h EXCEPT !.unbal = TRUE]

SupplyDisable(h) == [h EXCEPT !.supply = IF @ > 0 THEN @ - 1 ELSE 0]

\* One step of a power sequence: a GPIO line driven to a level, the clock
\* disabled, the supplies disabled.
GpioSet(line, val) == [op |-> "gpio", line |-> line, val |-> val]

PowerStep(h, s) ==
  CASE s.op = "gpio" -> [h EXCEPT !.gpio[s.line] = s.val]
    [] s.op = "clk_disable" -> ClkDisable(h)
    [] s.op = "supply_disable" -> SupplyDisable(h)

RECURSIVE RunSteps(_, _)
RunSteps(h, steps) ==
  IF steps = <<>> THEN h ELSE RunSteps(PowerStep(h, Head(steps)), Tail(steps))

gc02m1_power_on(h, pf) ==
  IF pf = "reg" THEN [hw |-> h, ret |-> 0 - EIO]
  ELSE IF pf = "clk" THEN
    \* regulator_bulk_enable succeeded and is undone by regulator_bulk_disable
    [hw |-> SupplyDisable([h EXCEPT !.supply = @ + 1]), ret |-> 0 - EIO]
  ELSE [hw |-> [h EXCEPT !.supply = @ + 1, !.clk = @ + 1, !.gpio.enable = 1],
        ret |-> 0]

\* The steps of gc02m1_power_off, in program order.
gc02m1_power_off_steps ==
  << GpioSet("enable", 0), [op |-> "clk_disable"], [op |-> "supply_disable"] >>

gc02m1_power_off(h) == RunSteps(h, gc02m1_power_off_steps)

s5k5e9_power_on(h, pf) ==
  IF pf = "reg" THEN [hw |-> h, ret |-> 0 - EIO]
  ELSE IF pf = "clk" THEN
    [hw |-> [h EXCEPT !.supply = @ + 1], ret |-> 0 - EIO]
  ELSE
    \* enable line pulsed 1 then 0, then the two identity registers are read
    LET on == [h EXCEPT !.supply = @ + 1, !.clk = @ + 1, !.gpio.enable = 0]
    IN  [hw |-> on, ret |-> IF pf = "id" THEN 0 - EIO ELSE 0]

\* The steps of s5k5e9_power_off: the line is driven to 1 (sensor held in
\* reset) and the clock disabled; no regulator call.
s5k5e9_power_off_steps == << GpioSet("enable", 1), [op |-> "clk_disable"] >>

s5k5e9_power_off(h) == RunSteps(h, s5k5e9_power_off_steps)

gc8034_power_on(h, pf) ==
  LET h1 == [h EXCEPT !.gpio.power = 1, !.gpio.reset = 1]
  IN  IF pf = "reg" THEN
        \* gc8034_enable_regulators undoes its own enables; goto disable_clk
        [hw |-> ClkDisable(h1), ret |-> 0 - EIO]
      ELSE IF pf = "clk" THEN
        [hw |-> [h1 EXCEPT !.supply = @ + 1], ret |-> 0 - EIO]
      ELSE
        [hw |-> [h1 EXCEPT !.supply = @ + 1, !.clk = @ + 1,
                           !.gpio.pwdn = 0, !.gpio.reset = 0],
         ret |-> 0]

\* The steps of __gc8034_power_off, in program order.
gc8034_power_off_steps ==
  << GpioSet("pwdn", 1), GpioSet("reset", 1), [op |-> "clk_disable"],
     GpioSet("power", 0), [op |-> "supply_disable"] >>

gc8034_power_off(h) == RunSteps(h, gc8034_power_off_steps)

power_on(v, h, pf) ==
  CASE v = "gc02m1" -> gc02m1_power_on(h, pf)
    [] v = "s5k5e9" -> s5k5e9_power_on(h, pf)
    [] v = "gc8034" -> gc8034_power_on(h, pf)

power_off_steps(v) ==
  CASE v = "gc02m1" -> gc02m1_power_off_steps
    [] v = "s5k5e9" -> s5k5e9_power_off_steps
    [] v = "gc8034" -> gc8034_power_off_steps

power_off(v, h) ==
  CASE v = "gc02m1" -> gc02m1_power_off(h)
    [] v = "s5k5e9" -> s5k5e9_power_off(h)
    [] v = "gc8034" -> gc8034_power_off(h)

\* The sensor answers on the bus only while supplied, clocked and released
\* by its control lines (the levels a successful power_on leaves).
SensorOn(v, h) ==
  /\ h.supply > 0 /\ h.clk > 0
  /\ CASE v = "gc02m1" -> h.gpio.enable = 1
        [] v = "s5k5e9" -> h.gpio.enable = 0
        [] v = "gc8034" -> h.gpio.reset = 0 /\ h.gpio.pwdn = 0

\* The hardware state a successful probe leaves behind (power_on, then
\* pm_runtime_idle suspends the device again).
InitHw(v) ==
  LET zero(g) == [supply |-> 0, clk |-> 0, unbal |-> FALSE, gpio |-> g]
  IN  CASE v = "gc02m1" ->
             gc02m1_power_off(gc02m1_power_on(zero([enable |-> 0]), "none").hw)
        [] v = "s5k5e9" ->
             s5k5e9_power_off(s5k5e9_power_on(zero([enable |-> 0]), "none").hw)
        [] v = "gc8034" ->
             gc8034_power_off(gc8034_power_on(
               zero([power |-> 0, reset |-> 0, pwdn |-> 0]), "none").hw)

(***************************************************************************)
(* Runtime PM core (drivers/base/power/runtime.c), as the drivers use it:  *)
(* a usage count and a status; the device is suspended (power_off) when a  *)
(* put drops the count to zero and resumed (power_on) by a get.            *)
(*   p = [usage, status, hw]                                               *)
(***************************************************************************)
rpm_resume(v, p, pf) ==
  IF p.status = "active" THEN [p |-> p, ret |-> 0]
  ELSE LET r == power_on(v, p.hw, pf)
       IN  IF r.ret = 0
           THEN [p |-> [p EXCEPT !.status = "active", !.hw = r.hw], ret |-> 0]
           ELSE [p |-> [p EXCEPT !.hw = r.hw], ret |-> r.ret]

pm_runtime_get_sync(v, p, pf) ==
  rpm_resume(v, [p EXCEPT !.usage = @ + 1], pf)

pm_runtime_put_noidle(p) ==
  [p EXCEPT !.usage = IF @ > 0 THEN @ - 1 ELSE 0]

pm_runtime_resume_and_get(v, p, pf) ==
  LET r == pm_runtime_get_sync(v, p, pf)
  IN  IF r.ret < 0 THEN [p |-> pm_runtime_put_noidle(r.p), ret |-> r.ret]
      ELSE [p |-> r.p, ret |-> 0]

pm_runtime_put(v, p) ==
  IF p.usage = 0 THEN p
  ELSE IF p.usage = 1 /\ p.status = "active"
       THEN [usage |-> 0, status |-> "suspended", hw |-> power_off(v, p.hw)]
       ELSE [p EXCEPT !.usage = @ - 1]

pm_runtime_get_if_in_use(p) == p.status = "active" /\ p.usage > 0


(***************************************************************************)
(* Attach and detach: probe with its identity check, and remove.           *)
(***************************************************************************)
CHIP_ID == 32836
S5K5E9_SENSOR_ID_VAL == 21915
ENODEV == 19

RECURSIVE BitOr(_, _)
BitOr(a, b) ==
  IF a = 0 THEN b ELSE IF b = 0 THEN a
  ELSE (IF a % 2 = 1 \/ b % 2 = 1 THEN 1 ELSE 0) + 2 * BitOr(a \div 2, b \div 2)

RECURSIVE BitAnd(_, _)
BitAnd(a, b) ==
  IF a = 0 \/ b = 0 THEN 0
  ELSE (IF a % 2 = 1 /\ b % 2 = 1 THEN 1 ELSE 0) + 2 * BitAnd(a \div 2, b \div 2)

\* What the identity check sees.  regs are the sensor's two identity
\* registers <<at ID_H, at ID_L>>; rd tells whether the bus reads succeed;
\* junk is what the locals of s5k5e9_power_on hold when they are not written.
Sensors(IdBytes) ==
  [regs : IdBytes \X IdBytes, rd : BOOLEAN, junk : IdBytes \X IdBytes]

\* s5k5e9_power_on reads ID_H into id[1] and ID_L into id[0] and ignores the
\* results of the reads: after a failed read id[] keeps its indeterminate
\* content.  The value tested is id[1] | (id[0] << 8).
s5k5e9_id(sens) ==
  LET id1 == IF sens.rd THEN sens.regs[1] ELSE sens.junk[1]
      id0 == IF sens.rd THEN sens.regs[2] ELSE sens.junk[2]
  IN  BitOr(id1, id0 * 256)

\* The failing step of s5k5e9_power_on, the identity test included.
s5k5e9_fault(pf, sens) ==
  IF pf = "none" /\ s5k5e9_id(sens) # S5K5E9_SENSOR_ID_VAL THEN "id" ELSE pf

\* gc8034_read_reg: the value is stored only when the transfer succeeds.
gc8034_read_reg(ok, regval, old) ==
  IF ok THEN [ret |-> 0, val |-> regval] ELSE [ret |-> 0 - EIO, val |-> old]

gc8034_check_sensor_id(sens) ==
  LET h   == gc8034_read_reg(sens.rd, sens.regs[1], 0)
      l   == gc8034_read_reg(sens.rd, sens.regs[2], 0)
      ret == IF h.ret = 0 /\ l.ret = 0 THEN 0 ELSE 0 - EIO
      id  == BitOr(BitAnd(h.val * 256, 65280), BitAnd(l.val, 255))
  IN  IF id # CHIP_ID THEN 0 - ENODEV ELSE ret

\* Device-managed resources are released when probe fails and when the
\* driver is unbound: every supply enable that s5k5e9_power_on took with
\* devm_regulator_bulk_get_enable is dropped.  Clocks are only put.
devres_release(v, h) == IF v = "s5k5e9" THEN [h EXCEPT !.supply = 0] ELSE h

\* pm_runtime_set_active, pm_runtime_enable, pm_runtime_idle at the end of a
\* successful probe: with no reference held the device is suspended.
ProbeIdle(v, h) ==
  [usage |-> 0, status |-> "suspended", hw |-> power_off(v, h)]

Unbound(h) == [usage |-> 0, status |-> "unbound", hw |-> h]

\* gc02m1_probe does not look at the result of gc02m1_power_on.
gc02m1_probe(h, pf, sens) ==
  [p |-> ProbeIdle("gc02m1", gc02m1_power_on(h, pf).hw), ret |-> 0]

s5k5e9_probe(h, pf, sens) ==
  LET r == s5k5e9_power_on(h, s5k5e9_fault(pf, sens))
  IN  IF r.ret < 0
      THEN \* error_power_off: pm_runtime_disable only
           [p |-> Unbound(devres_release("s5k5e9", r.hw)), ret |-> r.ret]
      ELSE [p |-> ProbeIdle("s5k5e9", r.hw), ret |-> 0]

gc8034_probe(h, pf, sens) ==
  LET r == gc8034_power_on(h, pf)
      c == gc8034_check_sensor_id(sens)
  IN  IF r.ret # 0 THEN \* err_free_handler
        [p |-> Unbound(r.hw), ret |-> r.ret]
      ELSE IF c # 0 THEN \* err_power_off
        [p |-> Unbound(gc8034_power_off(r.hw)), ret |-> c]
      ELSE [p |-> ProbeIdle("gc8034", r.hw), ret |-> 0]

probe(v, h, pf, sens) ==
  CASE v = "gc02m1" -> gc02m1_probe(h, pf, sens)
    [] v = "s5k5e9" -> s5k5e9_probe(h, pf, sens)
    [] v = "gc8034" -> gc8034_probe(h, pf, sens)

\* remove: pm_runtime_disable and pm_runtime_set_suspended leave runtime PM
\* disabled; only gc8034_remove powers the sensor off, and only when its
\* runtime status is not suspended.
gc02m1_remove(p) == [p EXCEPT !.status = "disabled"]

s5k5e9_remove(p) ==
  [p EXCEPT !.status = "disabled", !.hw = devres_release("s5k5e9", @)]

gc8034_remove(p) ==
  [p EXCEPT !.status = "disabled",
            !.hw = IF p.status # "suspended" THEN gc8034_power_off(@) ELSE @]

remove(v, p) ==
  CASE v = "gc02m1" -> gc02m1_remove(p)
    [] v = "s5k5e9" -> s5k5e9_remove(p)
    [] v = "gc8034" -> gc8034_remove(p)

\* The hardware before probe: nothing enabled, lines low.
ColdHw(v) ==
  [supply |-> 0, clk |-> 0, unbal |-> FALSE,
   gpio |-> IF v = "gc8034" THEN [power |-> 0, reset |-> 0, pwdn |-> 0]
            ELSE [enable |-> 0]]
(***************************************************************************)
(* ParameterEncoder: the s_ctrl handlers.  Each returns the PM state, the  *)
(* bus transactions it issued and its return value; n transactions were    *)
(* issued before it in the same step.                                      *)
(***************************************************************************)
Shr(x, k) == x \div (2 ^ k)
U8(x) == x % 256

GC02M1_SENSOR_SHUTTER_H == 3
GC02M1_SENSOR_SHUTTER_H_MASK == 63
GC02M1_SENSOR_MIRROR == 23
GC02M1_SENSOR_MIRROR_H_FLIP == 129
GC02M1_SENSOR_MIRROR_V_FLIP == 130
GC02M1_SENSOR_TEST_PATTERN == 140
GC02M1_SENSOR_TEST_PATTERN_ENABLE == 17
GC02M1_SENSOR_AGAIN_H == 177
GC02M1_SENSOR_AGAIN_H_MASK == 31
GC02M1_SENSOR_AGAIN_H_BITS_SHIFT == 3
GC02M1_SENSOR_AGAIN_STEP == 182
GC02M1_SENSOR_AGAIN_STEP_BITS == 18
GC02M1_SENSOR_DUMMY_ENABLE == 254
GC02M1_SENSOR_STREAMING_BASE == 256
GC02M1_SENSOR_MIRROR_NO_FLIP == 128
GC02M1_SENSOR_MIRROR_HV_FLIP == 131
GC02M1_SENSOR_TEST_PATTERN_DISABLE == 16
S5K5E9_REG_TEST_PATTERN == 1537
S5K5E9_REG_TEST_PATTERN_ENABLE == 2
S5K5E9_REG_TEST_PATTERN_DISABLE == 0
S5K5E9_REG_MODE_SELECT == 256
S5K5E9_MODE_STANDBY == 0
S5K5E9_MODE_STREAMING == 1

\* The transactions of one control, before faults are applied.
gc02m1_ctrl_writes(id, val) ==
  CASE id = "exposure" ->
         << <<GC02M1_SENSOR_SHUTTER_H,
              <<Shr(val, 8) % (GC02M1_SENSOR_SHUTTER_H_MASK + 1), U8(val)>> >> >>
    [] id = "gain" ->
         << <<GC02M1_SENSOR_DUMMY_ENABLE, <<1>> >>,
            <<GC02M1_SENSOR_DUMMY_ENABLE, <<0>> >>,
            <<GC02M1_SENSOR_AGAIN_STEP,
              <<U8(Shr(val, GC02M1_SENSOR_AGAIN_STEP_BITS))>> >>,
            <<GC02M1_SENSOR_AGAIN_H,
              <<Shr(val, 8 + GC02M1_SENSOR_AGAIN_H_BITS_SHIFT)
                  % (GC02M1_SENSOR_AGAIN_H_MASK + 1),
                U8(Shr(val, GC02M1_SENSOR_AGAIN_H_BITS_SHIFT))>> >> >>
    [] id = "vflip" ->
         << <<GC02M1_SENSOR_DUMMY_ENABLE, <<0>> >>,
            <<GC02M1_SENSOR_MIRROR, <<GC02M1_SENSOR_MIRROR_V_FLIP>> >> >>
    [] id = "hflip" ->
         << <<GC02M1_SENSOR_DUMMY_ENABLE, <<0>> >>,
            <<GC02M1_SENSOR_MIRROR, <<GC02M1_SENSOR_MIRROR_H_FLIP>> >> >>
    [] id = "test_pattern" ->
         << <<GC02M1_SENSOR_DUMMY_ENABLE, <<1>> >>,
            <<GC02M1_SENSOR_TEST_PATTERN,
              <<GC02M1_SENSOR_TEST_PATTERN_ENABLE>> >>,
            <<GC02M1_SENSOR_DUMMY_ENABLE, <<0>> >> >>
    [] OTHER -> <<>>

GC02M1_CIDS == {"exposure", "gain", "vflip", "hflip", "test_pattern"}

\* Issue the transactions ws, every one attempted whatever the earlier
\* results (the handlers only log a failed write).
IssueAll(ws, n, f, src) ==
  [j \in 1..Len(ws) |-> BusWrite(src, ws[j][1], ws[j][2], ~Fails(f, n + j))]

AnyFailed(bus) == \E j \in 1..Len(bus) : ~bus[j].ok

\* The reference pm_runtime_get_if_in_use takes when the device is in use.
GetInUse(p) == [p EXCEPT !.usage = @ + 1]

\* A handler that returns the result of its last write.
SetCtrlLastWrite(p, id, val, n, f) ==
  IF ~pm_runtime_get_if_in_use(p) THEN [bus |-> <<>>, ret |-> 0, p |-> p]
  ELSE LET bus == IssueAll(gc02m1_ctrl_writes(id, val), n, f, id)
       IN  [bus |-> bus,
            ret |-> IF bus # <<>> /\ ~bus[Len(bus)].ok THEN 0 - EIO ELSE 0,
            p   |-> pm_runtime_put("gc02m1", GetInUse(p))]

\* A handler that returns from its default case without pm_runtime_put.
SetCtrlNoPutOnDefault(p, id, val, n, f) ==
  IF ~pm_runtime_get_if_in_use(p) THEN [bus |-> <<>>, ret |-> 0, p |-> p]
  ELSE [bus |-> IssueAll(gc02m1_ctrl_writes(id, val), n, f, id),
        ret |-> IF id \in GC02M1_CIDS THEN 0 ELSE 0 - EINVAL,
        p   |-> IF id \in GC02M1_CIDS
                THEN pm_runtime_put("gc02m1", GetInUse(p)) ELSE GetInUse(p)]

\* gc02m1_set_ctrl: nothing unless the device is in use; every case ends
\* with ret = 0 except the default case.  The get_if_in_use / put pair
\* leaves the PM state as it was (the count was and stays positive).
gc02m1_set_ctrl(p, id, val, n, f) ==
  IF ~pm_runtime_get_if_in_use(p) THEN [bus |-> <<>>, ret |-> 0, p |-> p]
  ELSE [bus |-> IssueAll(gc02m1_ctrl_writes(id, val), n, f, id),
        ret |-> IF id \in GC02M1_CIDS THEN 0 ELSE 0 - EINVAL,
        p   |-> pm_runtime_put("gc02m1", GetInUse(p))]

\* s5k5e9_set_ctrl returns 0 before anything else.
s5k5e9_set_ctrl(p, id, val, n, f) == [bus |-> <<>>, ret |-> 0, p |-> p]

GC8034_REG_SET_PAGE == 254
GC8034_SET_PAGE_ZERO == 0
GC8034_REG_CTRL_MODE == 63
GC8034_MODE_SW_STANDBY == 0
GC8034_MODE_STREAMING == 208
GC8034_REG_EXPOSURE_H == 3
GC8034_REG_EXPOSURE_L == 4
GC8034_REG_VTS_H == 7
GC8034_REG_VTS_L == 8
GC8034_EXPOSURE_MIN == 4
GC8034_GAIN_MIN == 64
GC8034_GAIN_MAX == 1092
GC8034_GAIN_DEFAULT == 64
MAX_AG_INDEX == 9
AGC_REG_NUM == 14
MEAG_INDEX == 7

gain_level == <<64, 88, 125, 173, 243, 345, 490, 684, 962>>

agc_register ==
  << <<0, 85, 131, 1, 6, 24, 32, 22, 23, 80, 108, 155, 216, 0>>,
     <<0, 85, 131, 1, 6, 24, 32, 22, 23, 80, 108, 155, 216, 0>>,
     <<0, 78, 132, 1, 12, 46, 45, 21, 25, 71, 112, 159, 216, 0>>,
     <<0, 81, 128, 1, 7, 40, 50, 34, 32, 73, 112, 145, 217, 0>>,
     <<0, 77, 131, 1, 15, 59, 59, 28, 31, 71, 111, 155, 211, 0>>,
     <<0, 80, 131, 1, 8, 53, 70, 30, 34, 76, 112, 154, 210, 0>>,
     <<0, 82, 128, 1, 12, 53, 58, 43, 45, 76, 103, 141, 192, 0>>,
     <<0, 82, 128, 1, 12, 53, 58, 43, 45, 76, 103, 141, 192, 0>>,
     <<0, 82, 128, 1, 12, 53, 58, 43, 45, 76, 103, 141, 192, 0>> >>

\* The registers the 14 auxiliary bytes of a gain index go to.
agc_addr == <<254, 32, 51, 254, 223, 231, 232, 233, 234, 235, 236, 237, 238, 254>>

\* gc8034_set_exposure_reg: the value written and the cached ratio.
GC8034_VTS_MAX == 8191

\* An exposure encoding whose high byte keeps three bits.
ExposureWritesNarrow(exposure) ==
  << <<GC8034_REG_SET_PAGE, <<GC8034_SET_PAGE_ZERO>> >>,
     <<GC8034_REG_EXPOSURE_H, <<Shr(Shr(exposure, 1) * 2, 8) % 8>> >>,
     <<GC8034_REG_EXPOSURE_L, <<(Shr(exposure, 1) * 2) % 256>> >> >>

\* A ratio taken against the exposure as given.
RatioOfRaw(exposure) == (256 * exposure) \div exposure

cal_shutter(exposure) == Shr(exposure, 1) * 2
dgain_ratio(exposure) == (256 * exposure) \div cal_shutter(exposure)

gc8034_exposure_writes(exposure) ==
  << <<GC8034_REG_SET_PAGE, <<GC8034_SET_PAGE_ZERO>> >>,
     <<GC8034_REG_EXPOSURE_H, <<Shr(cal_shutter(exposure), 8) % 128>> >>,
     <<GC8034_REG_EXPOSURE_L, <<cal_shutter(exposure) % 256>> >> >>

\* gc8034_set_gain_reg: the loop runs gain_index from MEAG_INDEX - 1 down to
\* 0 and stops at the first level at or below a_gain; 0-based index, or -1.
\* A search that falls back to the first level.
GainIndexFloorZero(a_gain) ==
  LET hit == {g \in 0..(MEAG_INDEX - 1) : a_gain >= gain_level[g + 1]}
  IN  IF hit = {} THEN 0 ELSE CHOOSE g \in hit : \A h \in hit : h <= g

gain_index(a_gain) ==
  LET hit == {g \in 0..(MEAG_INDEX - 1) : a_gain >= gain_level[g + 1]}
  IN  IF hit = {} THEN 0 - 1 ELSE CHOOSE g \in hit : \A h \in hit : h <= g

gc8034_gain_writes(a_gain, ratio) ==
  LET g == gain_index(a_gain)
      temp_gain == (((256 * a_gain) \div gain_level[g + 1]) * ratio) \div 256
  IN  IF g < 0 THEN <<>>
      ELSE << <<GC8034_REG_SET_PAGE, <<GC8034_SET_PAGE_ZERO>> >>,
              <<182, <<g>> >>,
              <<177, <<U8(Shr(temp_gain, 8))>> >>,
              <<178, <<temp_gain % 256>> >> >>
           \o [j \in 1..AGC_REG_NUM |-> <<agc_addr[j], <<agc_register[g + 1][j]>> >>]

gc8034_vblank_writes(val, height) ==
  LET temp == val + height - 2448 - 36
  IN  << <<GC8034_REG_SET_PAGE, <<GC8034_SET_PAGE_ZERO>> >>,
         <<GC8034_REG_VTS_H, <<Shr(temp, 8) % 256>> >>,
         <<GC8034_REG_VTS_L, <<temp % 256>> >> >>

\* A handler that keeps only the result of the last write of every case.
Gc8034SetCtrlLastWrite(p, d, height, id, val, n, f) ==
  IF ~pm_runtime_get_if_in_use(p)
  THEN [bus |-> <<>>, ret |-> 0, d |-> d, p |-> p]
  ELSE
    LET ws == CASE id = "exposure" -> gc8034_exposure_writes(val)
                [] id = "again" -> gc8034_gain_writes(val, d.Dgain_ratio)
                [] id = "vblank" -> gc8034_vblank_writes(val, height)
                [] OTHER -> <<>>
        bus == IssueAll(ws, n, f, id)
    IN  [bus |-> bus,
         ret |-> IF bus # <<>> /\ ~bus[Len(bus)].ok THEN 0 - EIO ELSE 0,
         d   |-> IF id = "exposure"
                 THEN [d EXCEPT !.Dgain_ratio = dgain_ratio(val)] ELSE d,
         p   |-> pm_runtime_put("gc8034", GetInUse(p))]

\* gc8034_set_ctrl; d is the driver state (d.Dgain_ratio, mode height).
\* The test pattern case keeps only the result of its last write, the
\* default case only warns.
gc8034_set_ctrl(p, d, height, id, val, n, f) ==
  IF ~pm_runtime_get_if_in_use(p)
  THEN [bus |-> <<>>, ret |-> 0, d |-> d, p |-> p]
  ELSE
    LET ws == CASE id = "exposure" -> gc8034_exposure_writes(val)
                [] id = "again" -> gc8034_gain_writes(val, d.Dgain_ratio)
                [] id = "vblank" -> gc8034_vblank_writes(val, height)
                [] id = "test_pattern" ->
                     [j \in 1..Len(gc8034_global_regs_test_pattern) |->
                        <<gc8034_global_regs_test_pattern[j][1],
                          <<gc8034_global_regs_test_pattern[j][2]>> >>]
                [] OTHER -> <<>>
        bus == IssueAll(ws, n, f, id)
    IN  [bus |-> bus,
         ret |-> IF id = "test_pattern"
                 THEN (IF ~bus[Len(bus)].ok THEN 0 - EIO ELSE 0)
                 ELSE (IF AnyFailed(bus) THEN 0 - EIO ELSE 0),
         d   |-> IF id = "exposure"
                 THEN [d EXCEPT !.Dgain_ratio = dgain_ratio(val)] ELSE d,
         p   |-> pm_runtime_put("gc8034", GetInUse(p))]

(***************************************************************************)
(* ModeTable: the mode catalogs and nearest-fit lookup.                    *)
(***************************************************************************)
\* The catalog of gc02m1 with its two entries in the other order.
Gc02m1ModesSwapped ==
  << [width |-> 1600, height |-> 1200, reg_table |-> mode_1600x1200_custom1],
     [width |-> 1600, height |-> 1200, reg_table |-> mode_1600x1200] >>

gc02m1_modes ==
  << [width |-> 1600, height |-> 1200, reg_table |-> mode_1600x1200],
     [width |-> 1600, height |-> 1200, reg_table |-> mode_1600x1200_custom1] >>

s5k5e9_supported_modes ==
  << [width |-> 2592, height |-> 1940, reg_table |-> mode_2592x1940_regs] >>

supported_modes_2lane ==
  << [width |-> 3264, height |-> 2448, max_fps |-> <<10000, 300000>>,
      exp_def |-> 2304, vts_def |-> 2496,
      global_reg_list |-> gc8034_global_regs_2lane,
      reg_list |-> gc8034_3264x2448_regs_2lane] >>

supported_modes_4lane ==
  << [width |-> 3264, height |-> 2448, max_fps |-> <<10000, 300000>>,
      exp_def |-> 2246, vts_def |-> 2496,
      global_reg_list |-> gc8034_global_regs_4lane,
      reg_list |-> gc8034_3264x2448_regs_4lane] >>

\* gc8034_parse_of: the catalog follows the number of data lanes.
supported_modes(lanes) ==
  IF lanes = 4 THEN supported_modes_4lane ELSE supported_modes_2lane

Abs(x) == IF x < 0 THEN 0 - x ELSE x

\* gc8034_get_reso_dist with the height term left out.
WidthOnlyDist(mode, w, h) == Abs(mode.width - w)

gc8034_get_reso_dist(mode, w, h) ==
  Abs(mode.width - w) + Abs(mode.height - h)

\* BestFitLoop with <= for <: a later mode at the same distance replaces
\* the best so far.
RECURSIVE BestFitLoopLast(_, _, _, _, _, _)
BestFitLoopLast(modes, w, h, i, cur_best_fit, cur_best_fit_dist) ==
  IF i >= Len(modes) THEN cur_best_fit
  ELSE LET dist == gc8034_get_reso_dist(modes[i + 1], w, h)
       IN  IF cur_best_fit_dist = 0 - 1 \/ dist <= cur_best_fit_dist
           THEN BestFitLoopLast(modes, w, h, i + 1, i, dist)
           ELSE BestFitLoopLast(modes, w, h, i + 1, cur_best_fit,
                                cur_best_fit_dist)

\* The loop of gc8034_find_best_fit after i modes (cfg_num is the length of
\* the catalog): a mode replaces the best so far when no distance has been
\* recorded (-1) or when it is strictly closer.
RECURSIVE BestFitLoop(_, _, _, _, _, _)
BestFitLoop(modes, w, h, i, cur_best_fit, cur_best_fit_dist) ==
  IF i >= Len(modes) THEN cur_best_fit
  ELSE LET dist == gc8034_get_reso_dist(modes[i + 1], w, h)
       IN  IF cur_best_fit_dist = 0 - 1 \/ dist < cur_best_fit_dist
           THEN BestFitLoop(modes, w, h, i + 1, i, dist)
           ELSE BestFitLoop(modes, w, h, i + 1, cur_best_fit, cur_best_fit_dist)

\* gc8034_find_best_fit: the position in the catalog (from 1) of
\* &supported_modes[cur_best_fit].
gc8034_find_best_fit(modes, w, h) == BestFitLoop(modes, w, h, 0, 0, 0 - 1) + 1

\* v4l2_find_nearest_size as the ModeTable contract states it: least
\* Manhattan distance, first match wins.
find_nearest(modes, w, h) ==
  CHOOSE i \in 1..Len(modes) :
    /\ \A j \in 1..Len(modes) :
         Abs(modes[i].width - w) + Abs(modes[i].height - h)
           <= Abs(modes[j].width - w) + Abs(modes[j].height - h)
    /\ \A j \in 1..(i - 1) :
         Abs(modes[j].width - w) + Abs(modes[j].height - h)
           > Abs(modes[i].width - w) + Abs(modes[i].height - h)

\* The pixel code all three drivers report.
MEDIA_BUS_FMT_SRGGB10_1X10 == "SRGGB10_1X10"
GC02M1_MBUS_CODE == MEDIA_BUS_FMT_SRGGB10_1X10
GC8034_MEDIA_BUS_FMT == MEDIA_BUS_FMT_SRGGB10_1X10

\* A set_fmt that hands the requested size back.
SetFmtEcho(modes, w, h) ==
  [cur_mode |-> gc8034_find_best_fit(modes, w, h),
   format |-> [width |-> w, height |-> h, code |-> GC8034_MEDIA_BUS_FMT]]

\* gc8034_set_fmt, active format: the best-fit mode becomes cur_mode and
\* its size and the fixed code are returned.
gc8034_set_fmt(modes, w, h) ==
  LET mode == gc8034_find_best_fit(modes, w, h)
  IN  [cur_mode |-> mode,
       format |-> [width |-> modes[mode].width, height |-> modes[mode].height,
                   code |-> GC8034_MEDIA_BUS_FMT]]

\* gc8034_get_fmt, active format: the size of cur_mode and the fixed code.
gc8034_get_fmt(modes, cur_mode) ==
  [width |-> modes[cur_mode].width, height |-> modes[cur_mode].height,
   code |-> GC8034_MEDIA_BUS_FMT]

\* gc02m1_set_format, active format: the nearest mode's size and the fixed
\* code are stored in gc02m1->fmt, and the stored format is returned.
gc02m1_set_format(modes, w, h) ==
  LET mode == find_nearest(modes, w, h)
  IN  [width |-> modes[mode].width, height |-> modes[mode].height,
       code |-> GC02M1_MBUS_CODE]

\* gc02m1_get_format, active format: a copy of gc02m1->fmt.
gc02m1_get_format(fmt) == fmt

\* An enumeration that does not look at the pixel code.
EnumIgnoresCode(modes, cfg_num, index, code) ==
  IF index >= cfg_num THEN [ret |-> 0 - EINVAL, width |-> 0, height |-> 0]
  ELSE [ret |-> 0, width |-> modes[index + 1].width,
        height |-> modes[index + 1].height]

\* gc8034_enum_frame_sizes: index against cfg_num, then the code; min and
\* max of the reported frame size are both the mode's (index counts from 0).
gc8034_enum_frame_sizes(modes, cfg_num, index, code) ==
  IF index >= cfg_num THEN [ret |-> 0 - EINVAL, width |-> 0, height |-> 0]
  ELSE IF code # GC8034_MEDIA_BUS_FMT
       THEN [ret |-> 0 - EINVAL, width |-> 0, height |-> 0]
       ELSE [ret |-> 0, width |-> modes[index + 1].width,
             height |-> modes[index + 1].height]

\* gc02m1_enum_frame_size: the code, then index against ARRAY_SIZE.
gc02m1_enum_frame_size(modes, index, code) ==
  IF code # GC02M1_MBUS_CODE THEN [ret |-> 0 - EINVAL, width |-> 0, height |-> 0]
  ELSE IF index >= Len(modes)
       THEN [ret |-> 0 - EINVAL, width |-> 0, height |-> 0]
       ELSE [ret |-> 0, width |-> modes[index + 1].width,
             height |-> modes[index + 1].height]

Modes(c) ==
  CASE c.variant = "gc02m1" -> gc02m1_modes
    [] c.variant = "s5k5e9" -> s5k5e9_supported_modes
    [] c.variant = "gc8034" -> supported_modes(c.lane_num)

mode_table_common(v) ==
  IF v = "gc02m1" THEN gc02m1_mode_table_common ELSE s5k5e9_mode_table_common

write_table(v, T, f, src) ==
  IF v = "gc02m1" THEN gc02m1_write_table(T, f, src)
  ELSE s5k5e9_write_table(T, f, src)

(***************************************************************************)
(* Controls: the controls each driver registers with its s_ctrl handler,   *)
(* in creation order (the order v4l2_ctrl_handler_setup replays them), and *)
(* their default values.                                                   *)
(***************************************************************************)
CtrlOrder(v) ==
  CASE v = "gc02m1" -> <<"exposure">>
    [] v = "s5k5e9" -> <<"exposure", "again", "dgain", "vblank">>
    [] v = "gc8034" -> <<"vblank", "exposure", "again">>

Registered(v) == {CtrlOrder(v)[i] : i \in 1..Len(CtrlOrder(v))}

CtrlDefault(c, id) ==
  CASE c.variant = "gc02m1" -> 3184
    [] c.variant = "s5k5e9" ->
         (CASE id = "exposure" -> 3184 [] id = "again" -> 0
            [] id = "dgain" -> 256 [] id = "vblank" -> 116)
    [] c.variant = "gc8034" ->
         (CASE id = "exposure" -> Modes(c)[1].exp_def
            [] id = "again" -> GC8034_GAIN_DEFAULT
            [] id = "vblank" -> Modes(c)[1].vts_def - Modes(c)[1].height)

\* The values set_ctrl calls are made with (within each control's range).
CtrlValues(c, id) ==
  {CtrlDefault(c, id)} \cup
  (CASE c.variant = "gc02m1" -> {257}
     [] c.variant = "gc8034" /\ id = "exposure" -> {5}
     [] OTHER -> {})

\* The requested sizes set_fmt calls are made with.
FmtRequests == {<<1600, 1200>>, <<3264, 2448>>}

\* The s_ctrl handler of the variant.
s_ctrl(c, p, d, id, val, n, f) ==
  CASE c.variant = "gc02m1" ->
         [bus |-> gc02m1_set_ctrl(p, id, val, n, f).bus,
          ret |-> gc02m1_set_ctrl(p, id, val, n, f).ret, d |-> d,
          p |-> gc02m1_set_ctrl(p, id, val, n, f).p]
    [] c.variant = "s5k5e9" ->
         [bus |-> s5k5e9_set_ctrl(p, id, val, n, f).bus,
          ret |-> s5k5e9_set_ctrl(p, id, val, n, f).ret, d |-> d,
          p |-> s5k5e9_set_ctrl(p, id, val, n, f).p]
    [] c.variant = "gc8034" ->
         gc8034_set_ctrl(p, d, Modes(c)[d.cur_mode].height, id, val, n, f)

\* v4l2_ctrl_handler_setup: call s_ctrl with the cached value of every
\* registered control, in creation order, stopping at the first error.
RECURSIVE v4l2_ctrl_handler_setup(_, _, _, _, _, _, _)
v4l2_ctrl_handler_setup(c, p, d, cache, i, n, f) ==
  IF i > Len(CtrlOrder(c.variant))
  THEN [bus |-> <<>>, ret |-> 0, d |-> d, p |-> p]
  ELSE
    LET id == CtrlOrder(c.variant)[i]
        r  == s_ctrl(c, p, d, id, cache[id], n, f)
    IN  IF r.ret # 0 THEN r
        ELSE LET s == v4l2_ctrl_handler_setup(c, r.p, r.d, cache, i + 1,
                                              n + Len(r.bus), f)
             IN  [s EXCEPT !.bus = r.bus \o @]

(***************************************************************************)
(* State.                                                                  *)
(*   cfg    [variant, lane_num]: the driver and its device-tree lanes      *)
(*   pm     [usage, status, hw]: runtime-PM usage count and status, and    *)
(*          the supplies / clock / GPIO lines                              *)
(*   mutex  owner of the device mutex (0: free)                            *)
(*   dev    driver structure: streaming, power_on, fmt, cur_mode,          *)
(*          Dgain_ratio.  gc02m1 and s5k5e9 keep no streaming flag; for    *)
(*          them dev.streaming is the StreamController state: set by the   *)
(*          start write that ends s_stream(1), cleared when s_stream(0)    *)
(*          releases its reference                                         *)
(*   ctrl   cached value of every registered control                       *)
(*   thr    per thread: position in the entry point it runs, arguments,    *)
(*          return value, bus transactions of this call, references taken  *)
(*   tab    input and result of one table-interpreter run                  *)
(*   nfault number of faults injected so far                               *)
(*   after_stop  the call that returned last was a successful s_stream(0)  *)
(*          that met a streaming device                                    *)
(***************************************************************************)
VARIABLES cfg, pm, mutex, dev, ctrl, thr, tab, nfault, after_stop, pwr, fit, enc

vars == <<cfg, pm, mutex, dev, ctrl, thr, tab, nfault, after_stop, pwr, fit, enc>>

Threads == 1..NThreads

Idle ==
  [pc |-> "idle", op |-> "none", arg |-> 0, ret |-> 0, held |-> 0,
   pre |-> [streaming |-> FALSE, usage |-> 0, after_stop |-> FALSE], wr |-> <<>>, mode |-> 0,
   out |-> <<>>]

Configs ==
  {[variant |-> "gc02m1", lane_num |-> 0], [variant |-> "s5k5e9", lane_num |-> 0],
   [variant |-> "gc8034", lane_num |-> 2], [variant |-> "gc8034", lane_num |-> 4]}

TabOff == [st |-> "off", who |-> "none", T |-> <<>>, f |-> NoFault,
           bus |-> <<>>, ret |-> 0, slept |-> 0]

InitDriver(c) ==
  /\ cfg = c
  /\ pm = [usage |-> 0, status |-> "suspended", hw |-> InitHw(c.variant)]
  /\ mutex = 0
  /\ dev = [streaming |-> FALSE, power_on |-> FALSE,
            fmt |-> <<Modes(c)[1].width, Modes(c)[1].height>>,
            cur_mode |-> 1, Dgain_ratio |-> 0]
  /\ ctrl = [id \in Registered(c.variant) |-> CtrlDefault(c, id)]
  /\ thr = [t \in Threads |-> Idle]
  /\ nfault = 0
  /\ after_stop = FALSE

\* The power-sequencer and mode-search runs are idle in the driver model.
PwrOff == [st |-> "off", v |-> "none", p |-> 0, ret |-> 0, pre |-> 0,
           op |-> "none", pf |-> "none", pairs |-> 0, sens |-> 0]
NoFormat == [width |-> 0, height |-> 0, code |-> "none"]
FitOff == [st |-> "off", modes |-> <<>>, w |-> 0, h |-> 0, best |-> 0,
           nearest |-> 0, v |-> "none", cur_mode |-> 0, fmt |-> NoFormat,
           set1 |-> NoFormat, got |-> NoFormat, set2 |-> NoFormat,
           index |-> 0, code |-> "none",
           fse |-> [ret |-> 0, width |-> 0, height |-> 0]]

\* The control-encoding run is idle in the driver model.
EncOff == [st |-> "off", v |-> "none", id |-> "none", val |-> 0, ratio |-> 0,
           ws |-> <<>>, ret |-> 0, Dgain_ratio |-> 0, f |-> NoFault,
           oks |-> <<>>, setup_ret |-> 0]

Init ==
  /\ \E c \in Configs : InitDriver(c)
  /\ tab = TabOff /\ pwr = PwrOff /\ fit = FitOff /\ enc = EncOff

IsRegmap == cfg.variant \in {"gc02m1", "s5k5e9"}
IsGc8034 == cfg.variant = "gc8034"

Powered(h) == SensorOn(cfg.variant, h)

\* The faults a step may see: an unpowered sensor answers nothing.
BusFaults(h) ==
  IF ~Powered(h) THEN {DeadBus}
  ELSE IF nfault < MaxFaults THEN Faults ELSE {NoFault}

\* The power_on failures a step may see.
PowerFaultsNow ==
  IF nfault < MaxFaults THEN PowerFaults(cfg.variant) ELSE {"none"}

\* A transaction failed on a powered sensor: the injected fault took effect.
Hit(bus) == Powered(pm.hw) /\ AnyFailed(bus)

Charge(hit) == nfault' = IF hit THEN nfault + 1 ELSE nfault

\* A completed call returns to its caller before any other thread steps, so
\* that its record in thr is read against the state the call left behind.
Quiet == \A u \in Threads : thr[u].pc # "ret"

\* Callers are interchangeable: a new call is given to the lowest-numbered
\* thread that is idle.  No call is made to a removed device.
CanBegin(t) ==
  /\ thr[t].pc = "idle"
  /\ pm.status # "disabled"
  /\ \A u \in Threads : u < t => thr[u].pc # "idle"

\* A call that takes a power reference is made only below the caps on the
\* usage count and on the supply enables.
CanGet ==
  /\ pm.usage < MaxUsage
  /\ pm.status = "active" \/ pm.hw.supply < MaxSupply

Snapshot ==
  [streaming |-> dev.streaming, usage |-> pm.usage, after_stop |-> after_stop]

Begin(op, arg) == [Idle EXCEPT !.op = op, !.arg = arg, !.pre = Snapshot]

(***************************************************************************)
(* gc02m1_s_stream / s5k5e9_s_stream (the two are the same code).          *)
(***************************************************************************)
StartReg == IF cfg.variant = "gc02m1" THEN GC02M1_SENSOR_STREAMING_BASE
            ELSE S5K5E9_REG_MODE_SELECT

\* s_stream(1): pm_runtime_resume_and_get, outside the mutex.
RStreamOn(t) ==
  /\ Quiet
  /\ IsRegmap /\ CanBegin(t)
  /\ CanGet
  /\ \E pf \in PowerFaultsNow :
       LET r == pm_runtime_resume_and_get(cfg.variant, pm, pf)
       IN  /\ pm' = r.p
           /\ Charge(r.ret < 0)
           /\ thr' = [thr EXCEPT ![t] =
                [Begin("s_stream", 1) EXCEPT
                   !.held = r.p.usage - pm.usage, !.ret = r.ret,
                   !.pc = IF r.ret < 0 THEN "ret" ELSE "rs_lock"]]
  /\ UNCHANGED <<cfg, after_stop, mutex, dev, ctrl, tab, pwr, fit, enc>>

\* start_streaming: mutex_lock.
RStreamLock(t) ==
  /\ Quiet
  /\ thr[t].pc = "rs_lock" /\ mutex = 0
  /\ mutex' = t
  /\ thr' = [thr EXCEPT ![t].pc = "rs_common"]
  /\ UNCHANGED <<cfg, after_stop, nfault, pm, dev, ctrl, tab, pwr, fit, enc>>

\* An error path that returns with the mutex still held.
KeepLockedOnError(ret, m) == m

\* error: mutex_unlock(&mutex), reached by goto from every failing step.
UnlockOnError(ret, m) == IF ret < 0 THEN 0 ELSE m

\* One table of start_streaming; on error: mutex_unlock and return.
RTableStep(t, T, src, next) ==
  \E f \in BusFaults(pm.hw) :
    LET r == write_table(cfg.variant, T, f, src)
    IN  /\ thr' = [thr EXCEPT ![t].wr = @ \o r.bus, ![t].ret = r.ret,
                              ![t].pc = IF r.ret < 0 THEN "rs_errput" ELSE next]
        /\ Charge(Hit(r.bus))
        /\ mutex' = UnlockOnError(r.ret, mutex)

RStreamCommon(t) ==
  /\ Quiet
  /\ thr[t].pc = "rs_common"
  /\ RTableStep(t, mode_table_common(cfg.variant), "common", "rs_mode")
  /\ UNCHANGED <<cfg, after_stop, pm, dev, ctrl, tab, pwr, fit, enc>>

RStreamMode(t) ==
  /\ Quiet
  /\ thr[t].pc = "rs_mode"
  /\ LET mode == Modes(cfg)[find_nearest(Modes(cfg), dev.fmt[1], dev.fmt[2])]
     IN  RTableStep(t, mode.reg_table, "mode", "rs_ctrl")
  /\ UNCHANGED <<cfg, after_stop, pm, dev, ctrl, tab, pwr, fit, enc>>

\* __v4l2_ctrl_handler_setup, the mutex already held.
RStreamCtrl(t) ==
  /\ Quiet
  /\ thr[t].pc = "rs_ctrl"
  /\ \E f \in BusFaults(pm.hw) :
       LET r == v4l2_ctrl_handler_setup(cfg, pm, dev, ctrl, 1, 0, f)
       IN  /\ thr' = [thr EXCEPT ![t].wr = @ \o r.bus, ![t].ret = r.ret,
                        ![t].pc = IF r.ret < 0 THEN "rs_errput" ELSE "rs_start"]
           /\ Charge(Hit(r.bus))
           /\ mutex' = UnlockOnError(r.ret, mutex)
           /\ pm' = r.p
  /\ UNCHANGED <<cfg, after_stop, dev, ctrl, tab, pwr, fit, enc>>

\* The start write, then mutex_unlock on either path.
RStreamStart(t) ==
  /\ Quiet
  /\ thr[t].pc = "rs_start"
  /\ \E f \in BusFaults(pm.hw) :
       LET w == BusWrite("start", StartReg, <<1>>, ~Fails(f, 1))
       IN  /\ thr' = [thr EXCEPT ![t].wr = Append(@, w),
                        ![t].ret = IF w.ok THEN 0 ELSE 0 - EIO,
                        ![t].pc = IF w.ok THEN "ret" ELSE "rs_errput"]
           /\ Charge(Hit(<<w>>))
           /\ dev' = IF w.ok THEN [dev EXCEPT !.streaming = TRUE] ELSE dev
  /\ mutex' = 0
  /\ UNCHANGED <<cfg, after_stop, pm, ctrl, tab, pwr, fit, enc>>

\* err_rpm_put: pm_runtime_put, outside the mutex.
RStreamErrPut(t) ==
  /\ Quiet
  /\ thr[t].pc = "rs_errput"
  /\ pm' = pm_runtime_put(cfg.variant, pm)
  /\ thr' = [thr EXCEPT ![t].held = @ + (pm'.usage - pm.usage), ![t].pc = "ret"]
  /\ UNCHANGED <<cfg, after_stop, nfault, mutex, dev, ctrl, tab, pwr, fit, enc>>

\* s_stream(0): stop_streaming writes the stop value, outside the mutex.
RStreamOff(t) ==
  /\ Quiet
  /\ IsRegmap /\ CanBegin(t)
  /\ \E f \in BusFaults(pm.hw) :
       LET w == BusWrite("stop", StartReg, <<0>>, ~Fails(f, 1))
       IN  /\ thr' = [thr EXCEPT ![t] =
                [Begin("s_stream", 0) EXCEPT !.wr = <<w>>,
                   !.ret = IF w.ok THEN 0 ELSE 0 - EIO, !.pc = "rs_put"]]
           /\ Charge(Hit(<<w>>))
  /\ UNCHANGED <<cfg, after_stop, pm, mutex, dev, ctrl, tab, pwr, fit, enc>>

\* s_stream(0): pm_runtime_put on both the success and the error path.
RStreamOffPut(t) ==
  /\ Quiet
  /\ thr[t].pc = "rs_put"
  /\ pm' = pm_runtime_put(cfg.variant, pm)
  /\ dev' = [dev EXCEPT !.streaming = FALSE]
  /\ thr' = [thr EXCEPT ![t].held = @ + (pm'.usage - pm.usage),
                        ![t].pre = Snapshot, ![t].pc = "ret"]
  /\ UNCHANGED <<cfg, after_stop, nfault, mutex, ctrl, tab, pwr, fit, enc>>

\* gc02m1_set_format / s5k5e9_set_format (ACTIVE), under the mutex.
RSetFormat(t) ==
  /\ Quiet
  /\ IsRegmap /\ CanBegin(t) /\ mutex = 0
  /\ \E req \in FmtRequests :
       LET mode == Modes(cfg)[find_nearest(Modes(cfg), req[1], req[2])]
       IN  /\ dev' = [dev EXCEPT !.fmt = <<mode.width, mode.height>>]
           /\ thr' = [thr EXCEPT ![t] =
                [Begin("set_fmt", req) EXCEPT
                   !.out = <<mode.width, mode.height>>, !.pc = "ret"]]
  /\ UNCHANGED <<cfg, after_stop, nfault, pm, mutex, ctrl, tab, pwr, fit, enc>>

\* A control id that no set_ctrl handler has a case for.
V4L2_CID_BRIGHTNESS == "brightness"

\* A control set through the handler (its lock is the device mutex): the
\* new value is cached when s_ctrl succeeds.  The handler is also called
\* with an id it has no case for.
SetCtrl(t) ==
  /\ Quiet
  /\ CanBegin(t) /\ mutex = 0
  /\ \E id \in Registered(cfg.variant) \cup {V4L2_CID_BRIGHTNESS} :
     \E val \in IF id \in Registered(cfg.variant) THEN CtrlValues(cfg, id)
                ELSE {0} :
     \E f \in BusFaults(pm.hw) :
       LET r == s_ctrl(cfg, pm, dev, id, val, 0, f)
       IN  /\ ctrl' = IF r.ret = 0 /\ id \in Registered(cfg.variant)
                      THEN [ctrl EXCEPT ![id] = val] ELSE ctrl
           /\ Charge(Hit(r.bus))
           /\ dev' = r.d
           /\ thr' = [thr EXCEPT ![t] =
                [Begin("set_ctrl", <<id, val>>) EXCEPT
                   !.wr = r.bus, !.ret = r.ret, !.pc = "ret"]]
           /\ pm' = r.p
  /\ UNCHANGED <<cfg, after_stop, mutex, tab, pwr, fit, enc>>

(***************************************************************************)
(* gc8034_s_stream.                                                        *)
(***************************************************************************)
StreamingValue == IF cfg.lane_num = 2 THEN 145 ELSE GC8034_MODE_STREAMING

GStreamLock(t) ==
  /\ Quiet
  /\ IsGc8034 /\ CanBegin(t) /\ mutex = 0
  /\ \E on \in {0, 1} :
       /\ on = 1 => CanGet
       /\ thr' = [thr EXCEPT ![t] = [Begin("s_stream", on) EXCEPT !.pc = "gs_body"]]
  /\ mutex' = t
  /\ UNCHANGED <<cfg, after_stop, nfault, pm, dev, ctrl, tab, pwr, fit, enc>>

\* From the streaming check to the mutex_unlock of __gc8034_start_stream
\* (on) or to the end of the call.
GStreamBody(t) ==
  /\ Quiet
  /\ thr[t].pc = "gs_body"
  /\ LET on == thr[t].arg
         done(p, d, w, ret, hit) ==
           /\ Charge(hit) /\ pm' = p /\ dev' = d /\ mutex' = 0
           /\ thr' = [thr EXCEPT ![t].wr = @ \o w, ![t].ret = ret,
                        ![t].held = @ + (p.usage - pm.usage), ![t].pc = "ret"]
     IN  IF (on = 1) = dev.streaming THEN done(pm, dev, <<>>, 0, FALSE)
         ELSE IF on = 1 THEN
           \E pf \in PowerFaultsNow :
             LET g == pm_runtime_get_sync(cfg.variant, pm, pf)
             IN  IF g.ret < 0
                 THEN done(pm_runtime_put_noidle(g.p), dev, <<>>, g.ret, TRUE)
                 ELSE \E f \in BusFaults(g.p.hw) :
                   LET w == gc8034_write_array(
                              Modes(cfg)[dev.cur_mode].reg_list, 0, f, "mode")
                   IN  IF w.ret # 0
                       THEN done(pm_runtime_put(cfg.variant, g.p), dev, w.bus, w.ret, Powered(g.p.hw))
                       ELSE /\ Charge(FALSE) /\ pm' = g.p /\ dev' = dev /\ mutex' = 0
                            /\ thr' = [thr EXCEPT ![t].wr = @ \o w.bus,
                                         ![t].held = @ + 1, ![t].pc = "gs_ctrl"]
         ELSE
           \E f \in BusFaults(pm.hw) :
             LET w == IssueAll(
                        << <<GC8034_REG_SET_PAGE, <<GC8034_SET_PAGE_ZERO>> >>,
                           <<GC8034_REG_CTRL_MODE, <<GC8034_MODE_SW_STANDBY>> >> >>,
                        0, f, "stop")
             IN  done(pm_runtime_put(cfg.variant, pm),
                      [dev EXCEPT !.streaming = FALSE], w, 0, Hit(w))
  /\ UNCHANGED <<cfg, after_stop, ctrl, tab, pwr, fit, enc>>

\* v4l2_ctrl_handler_setup takes and releases the handler lock, which is the
\* device mutex.
GStreamCtrl(t) ==
  /\ Quiet
  /\ thr[t].pc = "gs_ctrl" /\ mutex = 0
  /\ \E f \in BusFaults(pm.hw) :
       LET r == v4l2_ctrl_handler_setup(cfg, pm, dev, ctrl, 1, 0, f)
       IN  /\ Charge(Hit(r.bus))
           /\ dev' = r.d
           /\ thr' = [thr EXCEPT ![t].wr = @ \o r.bus, ![t].ret = r.ret,
                                 ![t].pc = "gs_relock"]
           /\ pm' = r.p
  /\ UNCHANGED <<cfg, after_stop, mutex, ctrl, tab, pwr, fit, enc>>

GStreamRelock(t) ==
  /\ Quiet
  /\ thr[t].pc = "gs_relock" /\ mutex = 0
  /\ mutex' = t
  /\ thr' = [thr EXCEPT ![t].pc = "gs_start"]
  /\ UNCHANGED <<cfg, after_stop, nfault, pm, dev, ctrl, tab, pwr, fit, enc>>

\* ret |= page write, ret |= mode write; then the tail of gc8034_s_stream.
GStreamStart(t) ==
  /\ Quiet
  /\ thr[t].pc = "gs_start"
  /\ \E f \in BusFaults(pm.hw) :
       LET w == IssueAll(
                  << <<GC8034_REG_SET_PAGE, <<GC8034_SET_PAGE_ZERO>> >>,
                     <<GC8034_REG_CTRL_MODE, <<StreamingValue>> >> >>,
                  0, f, "start")
           ret == OrRet(thr[t].ret, IF AnyFailed(w) THEN 0 - EIO ELSE 0)
       IN  /\ Charge(Hit(w))
           /\ pm' = IF ret # 0 THEN pm_runtime_put(cfg.variant, pm) ELSE pm
           /\ dev' = IF ret # 0 THEN dev ELSE [dev EXCEPT !.streaming = TRUE]
           /\ thr' = [thr EXCEPT ![t].wr = @ \o w, ![t].ret = ret,
                        ![t].held = @ + (pm'.usage - pm.usage), ![t].pc = "ret"]
  /\ mutex' = 0
  /\ UNCHANGED <<cfg, after_stop, ctrl, tab, pwr, fit, enc>>

(***************************************************************************)
(* gc8034_s_power: cur_mode is read into the local mode before the lock.   *)
(***************************************************************************)
\* A power-state test that always finds work to do.
PowerStateAlwaysModified(d, on) == FALSE

\* if (gc8034->power_on == !!on): the power state is not modified.
PowerStateNotModified(d, on) == d.power_on = (on # 0)

GPowerEnter(t) ==
  /\ Quiet
  /\ IsGc8034 /\ CanBegin(t)
  /\ \E on \in {0, 1} :
       thr' = [thr EXCEPT ![t] =
                 [Begin("s_power", on) EXCEPT !.mode = dev.cur_mode, !.pc = "gp_lock"]]
  /\ UNCHANGED <<cfg, after_stop, nfault, pm, mutex, dev, ctrl, tab, pwr, fit, enc>>

GPowerBody(t) ==
  /\ Quiet
  /\ thr[t].pc = "gp_lock" /\ mutex = 0
  /\ thr[t].arg = 1 => CanGet
  /\ LET on == thr[t].arg
         done(p, d, w, ret, hit) ==
           /\ Charge(hit) /\ pm' = p /\ dev' = d
           /\ thr' = [thr EXCEPT ![t].wr = w, ![t].ret = ret,
                        ![t].pre = Snapshot,
                        ![t].held = p.usage - pm.usage, ![t].pc = "ret"]
     IN  IF PowerStateNotModified(dev, on) THEN done(pm, dev, <<>>, 0, FALSE)
         ELSE IF on = 1 THEN
           \E pf \in PowerFaultsNow :
             LET g == pm_runtime_get_sync(cfg.variant, pm, pf)
             IN  IF g.ret < 0
                 THEN done(pm_runtime_put_noidle(g.p), dev, <<>>, g.ret, TRUE)
                 ELSE \E f \in BusFaults(g.p.hw) :
                   LET w == gc8034_write_array(
                              Modes(cfg)[thr[t].mode].global_reg_list, 0, f, "global")
                   IN  IF w.ret # 0
                       THEN done(pm_runtime_put_noidle(g.p), dev, w.bus, w.ret, Powered(g.p.hw))
                       ELSE done(g.p, [dev EXCEPT !.power_on = TRUE], w.bus, 0, FALSE)
         ELSE done(pm_runtime_put(cfg.variant, pm),
                   [dev EXCEPT !.power_on = FALSE], <<>>, 0, FALSE)
  /\ UNCHANGED <<cfg, after_stop, mutex, ctrl, tab, pwr, fit, enc>>

\* gc8034_set_fmt (ACTIVE): cur_mode, then __v4l2_ctrl_s_ctrl(vblank,
\* vblank_def), which runs gc8034_set_ctrl; its result is not looked at.
GSetFmt(t) ==
  /\ Quiet
  /\ IsGc8034 /\ CanBegin(t) /\ mutex = 0
  /\ \E req \in FmtRequests :
     \E f \in BusFaults(pm.hw) :
       LET m    == gc8034_find_best_fit(Modes(cfg), req[1], req[2])
           mode == Modes(cfg)[m]
           vdef == mode.vts_def - mode.height
           d1   == [dev EXCEPT !.cur_mode = m]
           r    == s_ctrl(cfg, pm, d1, "vblank", vdef, 0, f)
       IN  /\ Charge(Hit(r.bus))
           /\ dev' = r.d
           /\ ctrl' = IF r.ret = 0 THEN [ctrl EXCEPT !["vblank"] = vdef] ELSE ctrl
           /\ thr' = [thr EXCEPT ![t] =
                [Begin("set_fmt", req) EXCEPT !.wr = r.bus,
                   !.out = <<mode.width, mode.height>>, !.pc = "ret"]]
           /\ pm' = r.p
  /\ UNCHANGED <<cfg, after_stop, mutex, tab, pwr, fit, enc>>

\* The read-only calls are started when no other call is in progress; other
\* calls may start and run while they wait for the mutex.
NoCallInProgress == \A u \in Threads : thr[u].pc = "idle"

\* gc8034_get_fmt (ACTIVE): cur_mode is read into the local mode before
\* mutex_lock.
GGetFmtEnter(t) ==
  /\ Quiet
  /\ IsGc8034 /\ CanBegin(t) /\ NoCallInProgress
  /\ thr' = [thr EXCEPT ![t] =
              [Begin("get_fmt", 0) EXCEPT !.mode = dev.cur_mode, !.pc = "gg_lock"]]
  /\ UNCHANGED <<cfg, after_stop, nfault, pm, mutex, dev, ctrl, tab, pwr, fit, enc>>

\* From mutex_lock to mutex_unlock: the format is filled from the local.
GGetFmtBody(t) ==
  /\ Quiet
  /\ thr[t].pc = "gg_lock" /\ mutex = 0
  /\ LET mode == Modes(cfg)[thr[t].mode]
     IN  thr' = [thr EXCEPT ![t].out = <<mode.width, mode.height>>,
                            ![t].pc = "ret"]
  /\ UNCHANGED <<cfg, after_stop, nfault, pm, mutex, dev, ctrl, tab, pwr, fit, enc>>

\* gc8034_g_frame_interval: the same shape, the interval of the local mode.
GFrameIntervalEnter(t) ==
  /\ Quiet
  /\ IsGc8034 /\ CanBegin(t) /\ NoCallInProgress
  /\ thr' = [thr EXCEPT ![t] =
              [Begin("g_frame_interval", 0) EXCEPT !.mode = dev.cur_mode,
                                                  !.pc = "gf_lock"]]
  /\ UNCHANGED <<cfg, after_stop, nfault, pm, mutex, dev, ctrl, tab, pwr, fit, enc>>

GFrameIntervalBody(t) ==
  /\ Quiet
  /\ thr[t].pc = "gf_lock" /\ mutex = 0
  /\ thr' = [thr EXCEPT ![t].out = Modes(cfg)[thr[t].mode].max_fps,
                        ![t].pc = "ret"]
  /\ UNCHANGED <<cfg, after_stop, nfault, pm, mutex, dev, ctrl, tab, pwr, fit, enc>>

\* The entry point returns to its caller.
Return(t) ==
  /\ thr[t].pc = "ret"
  /\ thr' = [thr EXCEPT ![t] = Idle]
  /\ after_stop' = /\ thr[t].op = "s_stream" /\ thr[t].arg = 0
                   /\ thr[t].ret = 0 /\ thr[t].pre.streaming
  /\ UNCHANGED <<cfg, nfault, pm, mutex, dev, ctrl, tab, pwr, fit, enc>>

\* remove, called when no call is in progress: the device is unregistered
\* first, the state of the driver object is left as it was.
Remove ==
  /\ pm.status # "disabled"
  /\ \A t \in Threads : thr[t].pc = "idle"
  /\ pm' = remove(cfg.variant, pm)
  /\ UNCHANGED <<cfg, after_stop, nfault, mutex, dev, ctrl, thr, tab, pwr, fit, enc>>

Next ==
  \/ Remove
  \/ \E t \in Threads :
    \/ RStreamOn(t) \/ RStreamLock(t) \/ RStreamCommon(t) \/ RStreamMode(t)
    \/ RStreamCtrl(t) \/ RStreamStart(t) \/ RStreamErrPut(t)
    \/ RStreamOff(t) \/ RStreamOffPut(t) \/ RSetFormat(t) \/ SetCtrl(t)
    \/ GStreamLock(t) \/ GStreamBody(t) \/ GStreamCtrl(t) \/ GStreamRelock(t)
    \/ GStreamStart(t) \/ GPowerEnter(t) \/ GPowerBody(t) \/ GSetFmt(t)
    \/ GGetFmtEnter(t) \/ GGetFmtBody(t)
    \/ GFrameIntervalEnter(t) \/ GFrameIntervalBody(t)
    \/ Return(t)

Spec == Init /\ [][Next]_vars

(***************************************************************************)
(* The table interpreters on their own: a table and a fault pattern are    *)
(* chosen, one run applies the table.                                      *)
(***************************************************************************)
DriverTables(who) ==
  CASE who = "gc02m1" ->
         {gc02m1_mode_table_common, mode_1600x1200, mode_1600x1200_custom1}
    [] who = "s5k5e9" -> {s5k5e9_mode_table_common, mode_2592x1940_regs}
    [] who = "gc8034" ->
         {gc8034_global_regs_2lane, gc8034_3264x2448_regs_2lane,
          gc8034_global_regs_4lane, gc8034_3264x2448_regs_4lane}

TableEnd(who) == IF who = "gc8034" THEN REG_NULL ELSE GC02M1_TABLE_END

\* The fault patterns of a run of an interpreter on its own.
TableFaults ==
  Faults \cup {[lo |-> k, hi |-> k] : k \in 1..MaxTableFailAt}

InitTable ==
  /\ InitDriver(CHOOSE c \in Configs : c.variant = "gc02m1")
  /\ \E who \in Variants :
     \E T \in DriverTables(who) \cup GenTables(TableEnd(who))
                \cup ExampleTables(TableEnd(who)) :
     \E f \in TableFaults :
       tab = [TabOff EXCEPT !.st = "init", !.who = who, !.T = T, !.f = f]
  /\ pwr = PwrOff /\ fit = FitOff /\ enc = EncOff

\* gc02m1_write_table / s5k5e9_write_table on the chosen table.
ApplyTable ==
  /\ tab.st = "init" /\ tab.who # "gc8034"
  /\ LET r == write_table(tab.who, tab.T, tab.f, "table")
     IN  tab' = [tab EXCEPT !.st = "done", !.bus = r.bus, !.ret = r.ret,
                            !.slept = r.slept]
  /\ UNCHANGED <<cfg, after_stop, nfault, pm, mutex, dev, ctrl, thr, pwr, fit, enc>>

\* gc8034_write_array on the chosen table.
ApplyArray ==
  /\ tab.st = "init" /\ tab.who = "gc8034"
  /\ LET r == gc8034_write_array(tab.T, 0, tab.f, "table")
     IN  tab' = [tab EXCEPT !.st = "done", !.bus = r.bus, !.ret = r.ret]
  /\ UNCHANGED <<cfg, after_stop, nfault, pm, mutex, dev, ctrl, thr, pwr, fit, enc>>

NextTable == ApplyTable \/ ApplyArray

SpecTable == InitTable /\ [][NextTable]_vars


(***************************************************************************)
(* The power sequencer on its own: one device is probed, runtime-resumed   *)
(* and runtime-suspended a number of times, and removed.                   *)
(*   pwr.p     runtime-PM state and hardware (usage, status, hw)           *)
(*   pwr.pre   hardware before the last operation                          *)
(*   pwr.op    the last operation, pwr.ret its result                      *)
(*   pwr.pf    the step that failed in it                                  *)
(*   pwr.sens  what the identity check of probe saw                        *)
(***************************************************************************)
\* Identity bytes: the two bytes of the expected identity and a wrong one.
IdBytes(v) ==
  IF v = "s5k5e9"
  THEN {S5K5E9_SENSOR_ID_VAL \div 256, S5K5E9_SENSOR_ID_VAL % 256, 0}
  ELSE {CHIP_ID \div 256, CHIP_ID % 256, 0}

\* The sensor's identity registers <<at ID_H, at ID_L>> when it is the
\* expected chip.  The s5k5e9 holds the high byte at the address the driver
\* calls ID_L.
RightChip(v) ==
  IF v = "s5k5e9"
  THEN <<S5K5E9_SENSOR_ID_VAL % 256, S5K5E9_SENSOR_ID_VAL \div 256>>
  ELSE <<CHIP_ID \div 256, CHIP_ID % 256>>

\* Any chip on a working bus, or the expected chip on a bus whose reads fail.
SensorInputs(v) ==
  {s \in Sensors(IdBytes(v)) :
     \/ s.rd /\ s.junk = s.regs
     \/ ~s.rd /\ s.regs = RightChip(v)}

InitPower ==
  /\ InitDriver(CHOOSE c \in Configs : c.variant = "gc02m1")
  /\ tab = TabOff /\ fit = FitOff /\ enc = EncOff
  /\ \E v \in Variants :
       pwr = [PwrOff EXCEPT !.st = "init", !.v = v, !.p = Unbound(ColdHw(v)),
                            !.pre = ColdHw(v)]

\* probe
PAttach ==
  /\ pwr.st = "init"
  /\ \E pf \in {"none", "reg", "clk"} : \E sens \in SensorInputs(pwr.v) :
       LET r == probe(pwr.v, pwr.p.hw, pf, sens)
       IN  pwr' = [pwr EXCEPT !.st = IF r.ret = 0 THEN "bound" ELSE "failed",
                              !.p = r.p, !.ret = r.ret, !.pre = pwr.p.hw,
                              !.op = "probe", !.sens = sens,
                              !.pf = IF pwr.v = "s5k5e9"
                                     THEN s5k5e9_fault(pf, sens) ELSE pf]
  /\ UNCHANGED <<cfg, after_stop, nfault, pm, mutex, dev, ctrl, thr, tab, fit, enc>>

\* A runtime resume (a reference is taken): power_on, any step may fail.
PResume ==
  /\ pwr.st = "bound" /\ pwr.p.status = "suspended"
  /\ pwr.pairs < MaxPairs
  /\ \E pf \in PowerFaults(pwr.v) :
       LET r == pm_runtime_resume_and_get(pwr.v, pwr.p, pf)
       IN  pwr' = [pwr EXCEPT !.p = r.p, !.ret = r.ret, !.pre = pwr.p.hw,
                              !.op = "power_on", !.pf = pf,
                              !.pairs = @ + 1]
  /\ UNCHANGED <<cfg, after_stop, nfault, pm, mutex, dev, ctrl, thr, tab, fit, enc>>

\* The reference is dropped: runtime suspend, power_off.
PSuspend ==
  /\ pwr.st = "bound" /\ pwr.p.status = "active"
  /\ pwr' = [pwr EXCEPT !.p = pm_runtime_put(pwr.v, pwr.p), !.ret = 0,
                        !.pre = pwr.p.hw, !.op = "power_off",
                        !.pf = "none"]
  /\ UNCHANGED <<cfg, after_stop, nfault, pm, mutex, dev, ctrl, thr, tab, fit, enc>>

\* remove
PDetach ==
  /\ pwr.st = "bound"
  /\ pwr' = [pwr EXCEPT !.st = "removed", !.p = remove(pwr.v, pwr.p),
                        !.ret = 0, !.pre = pwr.p.hw, !.op = "remove",
                        !.pf = "none"]
  /\ UNCHANGED <<cfg, after_stop, nfault, pm, mutex, dev, ctrl, thr, tab, fit, enc>>

NextPower == PAttach \/ PResume \/ PSuspend \/ PDetach

SpecPower == InitPower /\ [][NextPower]_vars

(***************************************************************************)
(* The mode search on its own: a catalog and a requested size are chosen,  *)
(* one run searches the catalog.                                           *)
(***************************************************************************)
\* Generated catalogs: one to MaxModes modes, in any order, repeats allowed,
\* with the frame sizes of the gc8034 mode lists; and the catalogs of the
\* drivers that hold more than one size or the same size twice.
GenModes == [width : {1632, 3264}, height : {1224, 2448}]

GenCatalogs ==
  UNION {[1..n -> GenModes] : n \in 1..MaxModes}
    \cup {supported_modes_2lane, supported_modes_4lane, gc02m1_modes}

\* Requested sizes: the catalog sizes, the sizes halfway between them (two
\* modes at the same distance) and sizes beyond them.
FitWidths == {640, 1600, 1632, 2448, 3264, 4000}
FitHeights == {480, 1200, 1224, 1836, 2448, 3000}

InitFit ==
  /\ InitDriver(CHOOSE c \in Configs : c.variant = "gc8034" /\ c.lane_num = 2)
  /\ tab = TabOff /\ pwr = PwrOff /\ enc = EncOff
  /\ \E modes \in GenCatalogs : \E w \in FitWidths : \E h \in FitHeights :
     \E v \in {"gc02m1", "gc8034"} :
       fit = [FitOff EXCEPT !.st = "init", !.modes = modes, !.w = w, !.h = h,
                            !.v = v, !.cur_mode = 1,
                            !.fmt = [width |-> modes[1].width,
                                     height |-> modes[1].height,
                                     code |-> GC02M1_MBUS_CODE]]

\* gc8034_find_best_fit, and the v4l2_find_nearest_size of the other two
\* drivers, on the chosen catalog and size.
ApplyFit ==
  /\ fit.st = "init"
  /\ fit' = [fit EXCEPT !.st = "done",
                        !.best = gc8034_find_best_fit(fit.modes, fit.w, fit.h),
                        !.nearest = find_nearest(fit.modes, fit.w, fit.h)]
  /\ UNCHANGED <<cfg, after_stop, nfault, pm, mutex, dev, ctrl, thr, tab, pwr, enc>>

\* set_fmt of the run's driver with the requested size, on the catalog of
\* the run: gc8034 keeps the mode in cur_mode, gc02m1 the format in fmt.
FitSetFormat ==
  /\ fit.st = "done"
  /\ fit' = IF fit.v = "gc8034"
            THEN LET r == gc8034_set_fmt(fit.modes, fit.w, fit.h)
                 IN  [fit EXCEPT !.st = "set", !.cur_mode = r.cur_mode,
                                 !.set1 = r.format]
            ELSE LET r == gc02m1_set_format(fit.modes, fit.w, fit.h)
                 IN  [fit EXCEPT !.st = "set", !.fmt = r, !.set1 = r]
  /\ UNCHANGED <<cfg, after_stop, nfault, pm, mutex, dev, ctrl, thr, tab, pwr, enc>>

\* get_fmt after it.
FitGetFormat ==
  /\ fit.st = "set"
  /\ fit' = [fit EXCEPT !.st = "got",
                        !.got = IF fit.v = "gc8034"
                                THEN gc8034_get_fmt(fit.modes, fit.cur_mode)
                                ELSE gc02m1_get_format(fit.fmt)]
  /\ UNCHANGED <<cfg, after_stop, nfault, pm, mutex, dev, ctrl, thr, tab, pwr, enc>>

\* set_fmt again, with the size the first set_fmt returned.
FitSetAgain ==
  /\ fit.st = "got"
  /\ fit' = IF fit.v = "gc8034"
            THEN LET r == gc8034_set_fmt(fit.modes, fit.set1.width,
                                         fit.set1.height)
                 IN  [fit EXCEPT !.st = "again", !.cur_mode = r.cur_mode,
                                 !.set2 = r.format]
            ELSE LET r == gc02m1_set_format(fit.modes, fit.set1.width,
                                            fit.set1.height)
                 IN  [fit EXCEPT !.st = "again", !.fmt = r, !.set2 = r]
  /\ UNCHANGED <<cfg, after_stop, nfault, pm, mutex, dev, ctrl, thr, tab, pwr, enc>>

\* Pixel codes a caller enumerates with: the drivers' code and another one.
MEDIA_BUS_FMT_SBGGR10_1X10 == "SBGGR10_1X10"
EnumCodes == {MEDIA_BUS_FMT_SRGGB10_1X10, MEDIA_BUS_FMT_SBGGR10_1X10}

\* enum_frame_size of the run's driver on the catalog of the run, with an
\* index up to one past the longest catalog.
FitEnum ==
  /\ fit.st = "init"
  /\ \E index \in 0..(MaxModes + 1) : \E code \in EnumCodes :
       fit' = [fit EXCEPT !.st = "enum", !.index = index, !.code = code,
                 !.fse = IF fit.v = "gc8034"
                         THEN gc8034_enum_frame_sizes(fit.modes, Len(fit.modes),
                                                      index, code)
                         ELSE gc02m1_enum_frame_size(fit.modes, index, code)]
  /\ UNCHANGED <<cfg, after_stop, nfault, pm, mutex, dev, ctrl, thr, tab, pwr, enc>>

NextFit == ApplyFit \/ FitSetFormat \/ FitGetFormat \/ FitSetAgain \/ FitEnum

SpecFit == InitFit /\ [][NextFit]_vars

(***************************************************************************)
(* The control handlers on their own: a driver, a control id, a value of   *)
(* the control and (gc8034) a cached Dgain_ratio are chosen, one call of   *)
(* the s_ctrl handler encodes the value while the device is in use and the *)
(* bus answers.                                                            *)
(***************************************************************************)
\* The values of a control: the range it is registered with (the gc8034
\* exposure maximum follows vblank up to GC8034_VTS_MAX - 4); 0 / 1 for the
\* flips and the test-pattern menu; sample gains for the gc02m1 gain case.
\* gc8034_set_gain_reg is also given the gains below the control's minimum.
EncValues(v, id) ==
  CASE v = "gc02m1" /\ id = "exposure" -> 0..3184
    [] v = "gc02m1" /\ id = "gain" -> {0, 8, 2048, 65535, 262144, 4194303}
    [] v = "gc8034" /\ id = "exposure" ->
         GC8034_EXPOSURE_MIN..(GC8034_VTS_MAX - 4)
    [] v = "gc8034" /\ id = "again" -> 0..GC8034_GAIN_MAX
    [] OTHER -> {0, 1}

EncIds(v) ==
  CASE v = "gc02m1" -> GC02M1_CIDS
    [] v = "s5k5e9" -> {"test_pattern"}
    [] v = "gc8034" -> {"exposure", "again"}

\* Dgain_ratio before the call: the initial 0, and the ratios an even and an
\* odd exposure leave.
EncRatios(v, id) ==
  IF v = "gc8034" /\ id = "again" THEN {0, dgain_ratio(4), dgain_ratio(5)}
  ELSE {0}

\* The bus during the call: answering, dead, or failing one transaction.
\* Any one transaction of a gc8034 gain encoding fails for the gains at the
\* thresholds of gain_level, any one of a gc02m1 case for its 0 / 1 and
\* sample values; the first one for a gc02m1 exposure.
EncFaults(v, id, val) ==
  {NoFault, DeadBus} \cup
  (CASE v = "gc8034" /\ id = "again"
          /\ val \in {gain_level[i] : i \in 1..MAX_AG_INDEX} ->
          {[lo |-> k, hi |-> k] : k \in 1..(4 + AGC_REG_NUM)}
     [] v = "gc02m1" /\ id # "exposure" -> {[lo |-> k, hi |-> k] : k \in 1..4}
     [] v = "gc02m1" /\ id = "exposure" -> {[lo |-> 1, hi |-> 1]}
     [] OTHER -> {})

EncConfig(v) == CHOOSE c \in Configs : c.variant = v /\ c.lane_num \in {0, 2}

\* The device in use: powered, runtime-active, one reference held.
InUse(v) ==
  [usage |-> 1, status |-> "active", hw |-> power_on(v, InitHw(v), "none").hw]

InitEnc ==
  /\ InitDriver(EncConfig("gc8034"))
  /\ tab = TabOff /\ pwr = PwrOff /\ fit = FitOff
  /\ \E v \in {"gc02m1", "s5k5e9", "gc8034"} : \E id \in EncIds(v) :
     \E val \in EncValues(v, id) : \E ratio \in EncRatios(v, id) :
     \E f \in EncFaults(v, id, val) :
       enc = [EncOff EXCEPT !.st = "init", !.v = v, !.id = id, !.val = val,
                            !.ratio = ratio, !.Dgain_ratio = ratio, !.f = f]

\* One call of the s_ctrl handler; ws keeps register and bytes of every
\* transaction in issue order.
ApplyEnc ==
  /\ enc.st = "init"
  /\ LET c == EncConfig(enc.v)
         r == s_ctrl(c, InUse(enc.v), [dev EXCEPT !.Dgain_ratio = enc.ratio],
                     enc.id, enc.val, 0, enc.f)
     IN  enc' = [enc EXCEPT !.st = "done", !.ret = r.ret,
                   !.ws = [j \in 1..Len(r.bus) |-> <<r.bus[j].addr, r.bus[j].vals>>],
                   !.oks = [j \in 1..Len(r.bus) |-> r.bus[j].ok],
                   !.Dgain_ratio = r.d.Dgain_ratio]
  /\ UNCHANGED <<cfg, after_stop, nfault, pm, mutex, dev, ctrl, thr, tab, pwr, fit>>

\* The replay of the cached controls at stream start, for a control the
\* driver registers and a value of its range: v4l2_ctrl_handler_setup with
\* the value of the run cached, on the same bus.
ReplayEnc ==
  /\ enc.st = "done" /\ enc.id \in Registered(enc.v)
  /\ (enc.v = "gc8034" /\ enc.id = "again") => enc.val >= GC8034_GAIN_MIN
  /\ LET c == EncConfig(enc.v)
         cache == [id \in Registered(enc.v) |->
                     IF id = enc.id THEN enc.val ELSE CtrlDefault(c, id)]
         r == v4l2_ctrl_handler_setup(c, InUse(enc.v),
                [dev EXCEPT !.Dgain_ratio = enc.Dgain_ratio], cache, 1, 0, enc.f)
     IN  enc' = [enc EXCEPT !.st = "replayed", !.setup_ret = r.ret]
  /\ UNCHANGED <<cfg, after_stop, nfault, pm, mutex, dev, ctrl, thr, tab, pwr, fit>>

NextEnc == ApplyEnc \/ ReplayEnc

SpecEnc == InitEnc /\ [][NextEnc]_vars
(***************************************************************************)
(* Properties.  A call is looked at when it has completed (pc = "ret"):    *)
(* thr[t].pre is the device state the call met, thr[t].wr the bus          *)
(* transactions it issued, thr[t].held the power references it took minus  *)
(* those it released.                                                      *)
(***************************************************************************)
Done(t, op, arg) == thr[t].pc = "ret" /\ thr[t].op = op /\ thr[t].arg = arg

\* The transactions of a call issued from one code site.
Part(t, src) ==
  LET from(w) == w.src = src IN SelectSeq(thr[t].wr, from)

\* The register entries of a table: everything before the final terminator
\* that is not a delay.
RegEntries(T, WAIT) ==
  LET reg(e) == e[1] # WAIT IN SelectSeq(SubSeq(T, 1, Len(T) - 1), reg)

\* The table a stream start has to apply first, and the table of its mode.
CommonTable ==
  IF IsRegmap THEN mode_table_common(cfg.variant)
  ELSE Modes(cfg)[dev.cur_mode].global_reg_list

ModeTable ==
  IF IsRegmap
  THEN Modes(cfg)[find_nearest(Modes(cfg), dev.fmt[1], dev.fmt[2])].reg_table
  ELSE Modes(cfg)[dev.cur_mode].reg_list

WaitAddr == IF IsRegmap THEN GC02M1_TABLE_WAIT_MS ELSE 0 - 1

\* The write that starts the stream, having reached the sensor.
IsStartWrite(w) ==
  /\ w.src = "start" /\ w.ok
  /\ IF IsRegmap THEN w.addr = StartReg /\ w.vals = <<1>>
     ELSE w.addr = GC8034_REG_CTRL_MODE /\ w.vals = <<StreamingValue>>

StartValueWritten(t) ==
  \E k \in 1..Len(thr[t].wr) : IsStartWrite(thr[t].wr[k])

\* Position of a code site in the order common, mode, controls, start.
Rank(src) ==
  CASE src = "common" -> 1 [] src = "global" -> 1 [] src = "mode" -> 2
    [] src = "start" -> 4 [] OTHER -> 3

InOrder(bus) ==
  \A j \in 1..Len(bus), k \in 1..Len(bus) :
    j < k => Rank(bus[j].src) <= Rank(bus[k].src)

\* C1: in every variant, s_stream(1) called while the device is Streaming
\* issues no register write, takes no further power reference and returns 0.
C1_StreamOnWhileStreamingIsNoOp ==
  \A t \in Threads :
    Done(t, "s_stream", 1) /\ thr[t].pre.streaming =>
      thr[t].wr = <<>> /\ thr[t].held = 0 /\ thr[t].ret = 0

\* C2: when a step of s_stream(1) fails (power-up, a table write, the control
\* replay or the start write), the call returns an error, holds no power
\* reference, leaves the device not Streaming, and the start value has not
\* been written to the sensor.
C2_FailedStartLeavesNoTrace ==
  \A t \in Threads :
    /\ Done(t, "s_stream", 1) /\ ~thr[t].pre.streaming
    /\ thr[t].ret # 0 \/ AnyFailed(thr[t].wr)
    => /\ thr[t].ret < 0
       /\ thr[t].held = 0
       /\ ~dev.streaming
       /\ ~StartValueWritten(t)

\* C3: a successful s_stream(1) from a non-streaming state writes all of the
\* common table, then all of the selected mode's table, then the control
\* replay, and its last write is the start write.
C3_StartWritesInOrder ==
  \A t \in Threads :
    Done(t, "s_stream", 1) /\ ~thr[t].pre.streaming /\ thr[t].ret = 0 =>
      /\ Flatten(Part(t, "common")) = RegEntries(CommonTable, WaitAddr)
      /\ Flatten(Part(t, "mode")) = RegEntries(ModeTable, WaitAddr)
      /\ InOrder(thr[t].wr)
      /\ thr[t].wr # <<>> /\ IsStartWrite(thr[t].wr[Len(thr[t].wr)])

\* C4: from the first register write of a stream start to its start write
\* the calling thread holds the device mutex.
C4_MutexHeldAcrossStart ==
  \A t \in Threads :
    /\ thr[t].op = "s_stream" /\ thr[t].arg = 1 /\ thr[t].wr # <<>>
    /\ thr[t].pc \in {"rs_mode", "rs_ctrl", "rs_start",
                      "gs_ctrl", "gs_relock", "gs_start"}
    => mutex = t

\* C5: the device is powered off (runtime status active -> suspended, the
\* power_off sequence) only by a step that drops the usage count to zero, and
\* whenever the device is Streaming the count is at least 1 and the device is
\* powered.
C5_PowerOffOnlyAtZero ==
  /\ [][pm.status = "active" /\ pm'.status = "suspended" =>
          pm.usage >= 1 /\ pm'.usage = 0]_vars
  /\ [](dev.streaming =>
          pm.usage >= 1 /\ pm.status = "active" /\ Powered(pm.hw))

\* C6: in every variant, s_stream(0) called while the device is not Streaming
\* issues no register write and releases no power reference.
C6_StreamOffWhileStoppedIsNoOp ==
  \A t \in Threads :
    Done(t, "s_stream", 0) /\ ~thr[t].pre.streaming =>
      thr[t].wr = <<>> /\ thr[t].held = 0

\* C7: s_stream(0) on a Streaming device releases exactly one power reference
\* and leaves the device not Streaming, whether or not the stop write
\* succeeded.
C7_StopReleasesOneReference ==
  \A t \in Threads :
    Done(t, "s_stream", 0) /\ thr[t].pre.streaming =>
      thr[t].held = 0 - 1 /\ ~dev.streaming

\* C8: a successful s_stream(1) that follows a successful s_stream(0) has
\* written, before its start write, the whole common table, the whole table
\* of the current mode and the encoding of every cached control.
C8_RestartReprogramsAll ==
  \A t \in Threads :
    /\ Done(t, "s_stream", 1) /\ thr[t].ret = 0
    /\ thr[t].pre.after_stop /\ ~thr[t].pre.streaming
    => /\ Flatten(Part(t, "common")) = RegEntries(CommonTable, WaitAddr)
       /\ Flatten(Part(t, "mode")) = RegEntries(ModeTable, WaitAddr)
       /\ \A id \in Registered(cfg.variant) : Part(t, id) # <<>>
       /\ thr[t].wr # <<>> /\ IsStartWrite(thr[t].wr[Len(thr[t].wr)])

\* A table that ends in END and has END nowhere else.
OnlyFinalEnd(T, END) ==
  /\ Len(T) >= 1 /\ T[Len(T)][1] = END
  /\ \A i \in 1..(Len(T) - 1) : T[i][1] # END

\* The delays of a table, added up.
RECURSIVE Delays(_, _, _)
Delays(T, i, WAIT) ==
  IF i > Len(T) THEN 0
  ELSE (IF T[i][1] = WAIT THEN T[i][2] ELSE 0) + Delays(T, i + 1, WAIT)

\* C9: for a table that ends in END and whose register entries use neither
\* sentinel address, write_table on a working bus writes every register entry
\* exactly once, at its address, with its value, in table order (entries of a
\* burst by the burst), writes nothing for a WAIT entry, goes on after it, and
\* returns 0.
C9_TableWritesEveryEntryOnce ==
  /\ tab.st = "done" /\ tab.who # "gc8034" /\ tab.f = NoFault
  /\ OnlyFinalEnd(tab.T, GC02M1_TABLE_END)
  => /\ tab.ret = 0
     /\ Flatten(tab.bus) = RegEntries(tab.T, GC02M1_TABLE_WAIT_MS)
     /\ \A k \in 1..Len(tab.bus) : tab.bus[k].addr # GC02M1_TABLE_WAIT_MS
     /\ tab.slept = Delays(tab.T, 1, GC02M1_TABLE_WAIT_MS)

\* A table with a burst, a delay and register entries after the delay.
C9_Witness ==
  /\ tab.st = "done" /\ tab.who # "gc8034" /\ tab.f = NoFault
  /\ OnlyFinalEnd(tab.T, GC02M1_TABLE_END)
  /\ tab.slept > 0 /\ tab.ret = 0
  /\ \E k \in 1..Len(tab.bus) : Len(tab.bus[k].vals) > 1
  /\ \E i \in 1..(Len(tab.T) - 2) :
       tab.T[i][1] = GC02M1_TABLE_WAIT_MS /\ tab.T[i + 1][1] > GC02M1_TABLE_END
  /\ Len(Flatten(tab.bus)) >= 3

\* C10: in every register table of the drivers END is the address of the
\* final entry only, so that applying a table (gc02m1's common table among
\* them) on a working bus writes all of its register entries.
C10_DriverTablesEndOnlyAtEnd ==
  /\ tab.st = "done" /\ tab.f = NoFault /\ tab.T \in DriverTables(tab.who)
  => /\ OnlyFinalEnd(tab.T, TableEnd(tab.who))
     /\ Flatten(tab.bus) =
          RegEntries(tab.T, IF tab.who = "gc8034" THEN 0 - 1
                            ELSE GC02M1_TABLE_WAIT_MS)

\* The index of the first entry of T at or after p that is not a delay.
RECURSIVE SkipWaits(_, _)
SkipWaits(T, p) ==
  IF p < Len(T) /\ T[p][1] = GC02M1_TABLE_WAIT_MS THEN SkipWaits(T, p + 1)
  ELSE p

\* The index in T of the entry that the k-th transaction of bus starts at,
\* when the transactions take the entries of T in order.
RECURSIVE BurstStart(_, _, _)
BurstStart(T, bus, k) ==
  IF k = 1 THEN SkipWaits(T, 1)
  ELSE SkipWaits(T, BurstStart(T, bus, k - 1) + Len(bus[k - 1].vals))

\* The transactions of bus as <<address, length>> pairs.
Shape(bus) == [k \in 1..Len(bus) |-> <<bus[k].addr, Len(bus[k].vals)>>]

\* The addresses of the entries of T before its final entry.
Addrs(T) == [i \in 1..(Len(T) - 1) |-> T[i][1]]

\* C11: write_table groups the entries into bursts: each burst starts at the
\* cursor, is the longest run of entries with exactly consecutive addresses
\* (at most MAX_CMD = 4 of them) and holds no WAIT or END entry; registers
\* 0x10, 0x11, 0x12, 0x20 give a burst of 3 at 0x10 and a single write at
\* 0x20, five consecutive registers a burst of 4 and a burst of 1, and a
\* repeated address is written once per entry.
C11_BurstsAreLongestConsecutiveRuns ==
  /\ tab.st = "done" /\ tab.who # "gc8034" /\ tab.f = NoFault
  /\ OnlyFinalEnd(tab.T, GC02M1_TABLE_END)
  => /\ \A k \in 1..Len(tab.bus) :
          LET s == BurstStart(tab.T, tab.bus, k)
              n == Len(tab.bus[k].vals)
          IN  /\ n >= 1 /\ n <= 4 /\ s + n <= Len(tab.T)
              /\ \A j \in 0..(n - 1) :
                   /\ tab.T[s + j][1] = tab.bus[k].addr + j
                   /\ tab.T[s + j][2] = tab.bus[k].vals[j + 1]
                   /\ tab.T[s + j][1] \notin
                        {GC02M1_TABLE_WAIT_MS, GC02M1_TABLE_END}
              /\ n = 4 \/ tab.T[s + n][1] # tab.bus[k].addr + n
     /\ LET e == IF tab.bus = <<>> THEN SkipWaits(tab.T, 1)
                 ELSE SkipWaits(tab.T, BurstStart(tab.T, tab.bus, Len(tab.bus))
                                       + Len(tab.bus[Len(tab.bus)].vals))
        IN  e = Len(tab.T)
     /\ Addrs(tab.T) = <<16, 17, 18, 32>>
          => Shape(tab.bus) = << <<16, 3>>, <<32, 1>> >>
     /\ Addrs(tab.T) = <<16, 17, 18, 19, 20, 0>>
          => Shape(tab.bus) = << <<16, 4>>, <<20, 1>> >>
     /\ Addrs(tab.T) = <<48, 48, 48>>
          => Shape(tab.bus) = << <<48, 1>>, <<48, 1>>, <<48, 1>> >>

\* The run over registers 0x10, 0x11, 0x12, 0x20 has been made.
C11_Witness ==
  /\ tab.st = "done" /\ tab.who # "gc8034" /\ tab.f = NoFault
  /\ Addrs(tab.T) = <<16, 17, 18, 32>>
  /\ Len(tab.bus) = 2 /\ tab.ret = 0

\* The run of the chosen interpreter over the chosen table on a working bus.
CleanRun ==
  IF tab.who = "gc8034" THEN gc8034_write_array(tab.T, 0, NoFault, "table")
  ELSE write_table(tab.who, tab.T, NoFault, "table")

\* C12: when a bus write fails while a table is applied, write_table and
\* gc8034_write_array return the error at once: the failed write is the last
\* transaction, the error is returned, and the transactions before it are
\* the ones of a failure-free run up to that point, with nothing written to
\* undo them.
C12_WriteFailureAbortsTable ==
  tab.st = "done" =>
    LET n == Len(tab.bus)
        failed == {k \in 1..n : ~tab.bus[k].ok}
    IN  /\ tab.ret # 0 <=> failed # {}
        /\ failed # {} =>
             /\ failed = {n}
             /\ tab.ret = 0 - EIO
             /\ n <= Len(CleanRun.bus)
             /\ \A k \in 1..n :
                  /\ tab.bus[k].addr = CleanRun.bus[k].addr
                  /\ tab.bus[k].vals = CleanRun.bus[k].vals

\* A run whose second transaction failed, with entries of the table left.
C12_Witness ==
  /\ tab.st = "done" /\ tab.ret = 0 - EIO
  /\ Len(tab.bus) = 2 /\ ~tab.bus[2].ok /\ tab.bus[1].ok
  /\ Len(CleanRun.bus) > 2

\* C13: a power_on that fails returns an error and undoes the steps it had
\* performed: the supply and clock enable counts are the ones before the
\* call, and no clock disable was issued for a clock that was not enabled.
C13_FailedPowerOnUnwinds ==
  pwr.op = "power_on" /\ pwr.ret # 0 =>
    /\ pwr.ret < 0
    /\ pwr.p.hw.supply = pwr.pre.supply
    /\ pwr.p.hw.clk = pwr.pre.clk
    /\ pwr.p.hw.unbal = pwr.pre.unbal

\* The position of the first step of a sequence that satisfies P, or 0.
FirstStep(steps, P(_)) ==
  IF \E i \in 1..Len(steps) : P(steps[i])
  THEN CHOOSE i \in 1..Len(steps) :
         P(steps[i]) /\ \A j \in 1..(i - 1) : ~P(steps[j])
  ELSE 0

IsGpioStep(s) == s.op = "gpio"
IsClkStep(s) == s.op = "clk_disable"
IsSupplyStep(s) == s.op = "supply_disable"

\* C14: power_off drives the enable/reset line, then disables the clock,
\* then disables the supplies; after successful power_on / power_off pairs
\* every supply enable has been matched by a disable and the clock is
\* disabled.
C14_PowerOffMirrorsPowerOn ==
  pwr.op = "power_off" =>
    LET steps == power_off_steps(pwr.v)
        g == FirstStep(steps, IsGpioStep)
        c == FirstStep(steps, IsClkStep)
        s == FirstStep(steps, IsSupplyStep)
    IN  /\ 0 < g /\ g < c /\ c < s
        /\ ~SensorOn(pwr.v, pwr.p.hw)
        /\ pwr.p.hw.clk = 0
        /\ pwr.p.hw.supply = 0

\* The probe of a gc8034 or s5k5e9 whose power-on steps all succeeded.
ProbedIdentity ==
  /\ pwr.op = "probe" /\ pwr.v \in {"gc8034", "s5k5e9"}
  /\ pwr.pf \in {"none", "id"}

\* C15: on gc8034 and s5k5e9 probe succeeds only when the two identity
\* registers were read and combine to the expected 16-bit constant; on a
\* mismatch probe fails with an error, the device stays unbound, and clock
\* and supplies are released so that the sensor is left powered off.
C15_AttachVerifiesIdentity ==
  ProbedIdentity =>
    /\ pwr.ret = 0 => pwr.sens.rd /\ pwr.sens.regs = RightChip(pwr.v)
    /\ pwr.sens.regs # RightChip(pwr.v) =>
         /\ pwr.ret < 0 /\ pwr.st = "failed"
         /\ pwr.p.hw.clk = 0 /\ pwr.p.hw.supply = 0
         /\ ~SensorOn(pwr.v, pwr.p.hw)

\* C16: after remove, from whatever state it was called in (streaming, a
\* power reference held), the sensor is physically off: its control lines
\* at the levels power_off drives them to, clock and supplies disabled.
C16_RemovePowersOff ==
  pm.status = "disabled" =>
    /\ pm.hw.gpio = power_off(cfg.variant, pm.hw).gpio
    /\ pm.hw.clk = 0
    /\ pm.hw.supply = 0
    /\ ~Powered(pm.hw)

\* C17: set_ctrl called with a control id it has no case for returns an
\* error and writes no register, in every power state and every variant.
C17_UnknownControlRejected ==
  \A t \in Threads :
    /\ thr[t].pc = "ret" /\ thr[t].op = "set_ctrl"
    /\ thr[t].arg[1] = V4L2_CID_BRIGHTNESS
    => thr[t].ret < 0 /\ thr[t].wr = <<>>

\* The call of t has read cur_mode into its local and has not used it yet.
HoldsReadMode(t) == thr[t].pc \in {"gp_lock", "gg_lock", "gf_lock"}

MidStart(t) == thr[t].pc \in {"rs_mode", "rs_ctrl", "rs_start"}

\* C19: on gc02m1 and s5k5e9 the whole s_stream transition runs under the
\* mutex: between the first table write and the start write of one call no
\* other s_stream call writes the stop value or changes the runtime-PM
\* usage count.
C19_StreamTransitionUnderMutex ==
  [][\A t \in Threads :
       MidStart(t) =>
         /\ pm'.usage = pm.usage
         /\ \A u \in Threads \ {t} :
              ~(thr[u].pc = "idle" /\ thr'[u].pc = "rs_put")]_vars

\* The catalog of the run holds a mode of exactly the requested size.
HasExactMode ==
  \E i \in 1..Len(fit.modes) :
    fit.modes[i].width = fit.w /\ fit.modes[i].height = fit.h

\* C20: the mode search returns a mode of the catalog for every requested
\* (width, height); when the catalog holds a mode of exactly the requested
\* size, the returned mode has distance 0 and those dimensions.
C20_FindNearestTotalAndExact ==
  fit.st = "done" =>
    /\ fit.best \in 1..Len(fit.modes)
    /\ HasExactMode =>
         /\ fit.modes[fit.best].width = fit.w
         /\ fit.modes[fit.best].height = fit.h
         /\ Abs(fit.modes[fit.best].width - fit.w)
              + Abs(fit.modes[fit.best].height - fit.h) = 0

\* A search whose exact match is not the first mode of the catalog and
\* shares its width with an earlier mode.
C20_Witness ==
  /\ fit.st = "done" /\ HasExactMode /\ Len(fit.modes) >= 2
  /\ fit.best > 1
  /\ fit.modes[1].width = fit.w /\ fit.modes[1].height # fit.h
  /\ fit.modes[fit.best].width = fit.w /\ fit.modes[fit.best].height = fit.h

\* The Manhattan distance of mode i of the catalog of the run from the
\* requested size.
FitDist(i) ==
  Abs(fit.modes[i].width - fit.w) + Abs(fit.modes[i].height - fit.h)

\* C21: the mode search returns a mode at the least Manhattan distance
\* |mode.width - w| + |mode.height - h| over the catalog, and of the modes
\* at that distance the one with the lowest index; in the catalog
\* [(1600,1200), (1600,1200)] requested at (1600,1200) that is entry 0 (the
\* first position).
C21_NearestIsFirstMinimum ==
  fit.st = "done" =>
    /\ \A j \in 1..Len(fit.modes) : FitDist(fit.best) <= FitDist(j)
    /\ \A j \in 1..(fit.best - 1) : FitDist(j) > FitDist(fit.best)
    /\ (fit.modes = gc02m1_modes /\ fit.w = 1600 /\ fit.h = 1200)
         => fit.best = 1 /\ fit.nearest = 1

\* A search with no exact match in which two modes are at the least
\* distance and the first of them is not the first mode of the catalog.
C21_Witness ==
  /\ fit.st = "done" /\ ~HasExactMode /\ fit.best > 1
  /\ \E j \in (fit.best + 1)..Len(fit.modes) : FitDist(j) = FitDist(fit.best)

\* The size a format or a mode carries.
FormatSize(f) == <<f.width, f.height>>

\* C22: set_format(ACTIVE, w, h) returns the size of the nearest mode of the
\* catalog and the fixed pixel code; the get_format that follows returns the
\* same size; and set_format called again with the returned size returns it
\* unchanged.
C22_SetFormatRoundTrip ==
  /\ fit.st \in {"set", "got", "again"} =>
       /\ FormatSize(fit.set1) = FormatSize(fit.modes[find_nearest(fit.modes, fit.w, fit.h)])
       /\ fit.set1.code = MEDIA_BUS_FMT_SRGGB10_1X10
  /\ fit.st \in {"got", "again"} =>
       /\ FormatSize(fit.got) = FormatSize(fit.set1)
       /\ fit.got.code = MEDIA_BUS_FMT_SRGGB10_1X10
  /\ fit.st = "again" => fit.set2 = fit.set1

\* A completed round trip in which the requested size is not in the catalog
\* and the returned mode is not the first one of the catalog.
C22_Witness ==
  /\ fit.st = "again" /\ ~HasExactMode
  /\ FormatSize(fit.set1) # FormatSize(fit.modes[1])
  /\ fit.set2 = fit.set1 /\ FormatSize(fit.got) = FormatSize(fit.set1)

\* C23: enum_frame_sizes(index) returns 0 and reports exactly the width and
\* height of catalog[index] when index is below the catalog length and the
\* pixel code is the driver's fixed code, and returns an error otherwise.
C23_EnumFrameSizes ==
  fit.st = "enum" =>
    IF fit.index < Len(fit.modes) /\ fit.code = MEDIA_BUS_FMT_SRGGB10_1X10
    THEN /\ fit.fse.ret = 0
         /\ fit.fse.width = fit.modes[fit.index + 1].width
         /\ fit.fse.height = fit.modes[fit.index + 1].height
    ELSE fit.fse.ret < 0

\* The last mode of a catalog of several sizes has been enumerated.
C23_Witness ==
  /\ fit.st = "enum" /\ fit.fse.ret = 0
  /\ fit.index = Len(fit.modes) - 1 /\ fit.index > 0
  /\ FormatSize(fit.modes[1]) # FormatSize(fit.modes[fit.index + 1])
  /\ FormatSize(fit.fse) = FormatSize(fit.modes[fit.index + 1])

\* A value rounded down to even.
EvenDown(x) == x - (x % 2)

\* The exposure an encoding run wrote, read back from its two bytes.
DecodedExposure ==
  IF enc.v = "gc02m1" THEN enc.ws[1][2][1] * 256 + enc.ws[1][2][2]
  ELSE enc.ws[2][2][1] * 256 + enc.ws[3][2][1]

EncExposure(v) ==
  enc.st \in {"done", "replayed"} /\ enc.v = v /\ enc.id = "exposure"

\* C24: for every exposure value v of the exposure control's range the two
\* bytes written (high = (v >> 8) under the sensor's mask, low = v & 0xff)
\* decode back to v on gc02m1 and to the even-rounded cal_shutter on gc8034:
\* the high-byte mask (0x3f on gc02m1, 0x7f on gc8034) drops no set bit.
C24_ExposureBytesDecode ==
  /\ EncExposure("gc02m1") =>
       /\ enc.ws[1][1] = GC02M1_SENSOR_SHUTTER_H
       /\ enc.ws[1][2] = <<Shr(enc.val, 8), enc.val % 256>>
       /\ Shr(enc.val, 8) <= 63
       /\ DecodedExposure = enc.val
  /\ EncExposure("gc8034") =>
       /\ enc.ws[2][1] = GC8034_REG_EXPOSURE_H /\ enc.ws[3][1] = GC8034_REG_EXPOSURE_L
       /\ enc.ws[2][2] = <<Shr(EvenDown(enc.val), 8)>>
       /\ enc.ws[3][2] = <<(EvenDown(enc.val)) % 256>>
       /\ Shr(enc.val, 8) <= 127
       /\ DecodedExposure = EvenDown(enc.val)

\* The largest gc8034 exposure, odd, has been encoded.
C24_Witness ==
  /\ EncExposure("gc8034") /\ enc.val = GC8034_VTS_MAX - 4
  /\ DecodedExposure = enc.val - 1 /\ enc.ws[2][2][1] > 15

\* C25: on gc8034, setting exposure e writes cal_shutter = e rounded down to
\* even and caches dgain_ratio = floor(256 * e / cal_shutter): the ratio is
\* 256 for every even e and for e = 4097, it is at least 256 for every e,
\* and for every e of the control's range [4, max] cal_shutter is nonzero.
C25_DgainRatio ==
  EncExposure("gc8034") =>
    /\ cal_shutter(enc.val) = EvenDown(enc.val)
    /\ cal_shutter(enc.val) # 0
    /\ DecodedExposure = cal_shutter(enc.val)
    /\ enc.Dgain_ratio * cal_shutter(enc.val) <= 256 * enc.val
    /\ (enc.Dgain_ratio + 1) * cal_shutter(enc.val) > 256 * enc.val
    /\ enc.Dgain_ratio >= 256
    /\ enc.val % 2 = 0 => enc.Dgain_ratio = 256
    /\ enc.val = 4097 => enc.Dgain_ratio = 256

\* The smallest odd exposure of the range has been encoded: the ratio it
\* leaves is above 256.
C25_Witness ==
  /\ EncExposure("gc8034") /\ enc.val = GC8034_EXPOSURE_MIN + 1
  /\ enc.Dgain_ratio = 320 /\ enc.ratio = 0

EncGain ==
  enc.st \in {"done", "replayed"} /\ enc.v = "gc8034" /\ enc.id = "again"

\* The 0-based index of the highest entry of gain_level at or below g.
LowerThreshold(g) ==
  CHOOSE i \in 0..(MAX_AG_INDEX - 1) :
    /\ gain_level[i + 1] <= g
    /\ i + 1 < MAX_AG_INDEX => g < gain_level[i + 2]

\* C26: for a requested gain equal to a threshold entry of the gc8034 gain
\* table, gain encoding selects that entry's index, and for a gain strictly
\* between two thresholds the index of the lower one; for every entry of the
\* 9-entry gain_level table and every gain of the control range [64, 1092].
C26_GainIndexIsLowerThreshold ==
  (EncGain /\ enc.val >= GC8034_GAIN_MIN) =>
    /\ Len(enc.ws) >= 2 /\ enc.ws[2][1] = 182
    /\ enc.ws[2][2] = <<LowerThreshold(enc.val)>>
    /\ \A i \in 0..(MAX_AG_INDEX - 1) :
         enc.val = gain_level[i + 1] => enc.ws[2][2] = <<i>>

\* The call thread t has completed issued gain transactions.
GainEncoded(t) ==
  /\ IsGc8034 /\ thr[t].pc = "ret"
  /\ \E j \in 1..Len(thr[t].wr) : thr[t].wr[j].src = "again"

\* The same call encoded the exposure before the gain.
ExposureEncodedBefore(t) ==
  \E i, j \in 1..Len(thr[t].wr) :
    i < j /\ thr[t].wr[i].src = "exposure" /\ thr[t].wr[j].src = "again"

\* C27: whenever gc8034 gain encoding runs, an exposure encoding has run
\* before it since attach: the Dgain_ratio it reads is the value the latest
\* exposure encoding cached (at least 256), never the initial zero, for
\* every order of s_power, set_control and s_stream calls.
C27_GainReadsCachedRatio ==
  \A t \in Threads :
    GainEncoded(t) => ExposureEncodedBefore(t) \/ dev.Dgain_ratio >= 256

EncDone(v, id) ==
  enc.st \in {"done", "replayed"} /\ enc.v = v /\ enc.id = id

\* The registers an encoding run wrote, in issue order, and the first bytes.
EncRegs == [j \in 1..Len(enc.ws) |-> enc.ws[j][1]]
EncBytes == [j \in 1..Len(enc.ws) |-> enc.ws[j][2][1]]

\* C28: gc02m1 analog-gain set writes the dummy-enable register 1 then 0
\* before the step-register and again-register writes, and writes it 1 then
\* 0 again after them.
C28_GainDummyToggleAround ==
  EncDone("gc02m1", "gain") =>
    /\ EncRegs = <<GC02M1_SENSOR_DUMMY_ENABLE, GC02M1_SENSOR_DUMMY_ENABLE,
                   GC02M1_SENSOR_AGAIN_STEP, GC02M1_SENSOR_AGAIN_H,
                   GC02M1_SENSOR_DUMMY_ENABLE, GC02M1_SENSOR_DUMMY_ENABLE>>
    /\ EncBytes[1] = 1 /\ EncBytes[2] = 0
    /\ EncBytes[5] = 1 /\ EncBytes[6] = 0

\* C29: gc02m1 flip/mirror set writes to the mirror register the constant of
\* the resulting mirror state (0x80 no flip, 0x81 horizontal, 0x82 vertical,
\* 0x83 both); setting a flip control to 0 never writes a flipped constant.
\* Checked from the unflipped state: one flip control set, the other at 0.
C29_MirrorConstantOfState ==
  /\ EncDone("gc02m1", "hflip") =>
       /\ Len(enc.ws) >= 1 /\ enc.ws[Len(enc.ws)][1] = GC02M1_SENSOR_MIRROR
       /\ enc.ws[Len(enc.ws)][2] =
            <<IF enc.val = 1 THEN GC02M1_SENSOR_MIRROR_H_FLIP
              ELSE GC02M1_SENSOR_MIRROR_NO_FLIP>>
  /\ EncDone("gc02m1", "vflip") =>
       /\ Len(enc.ws) >= 1 /\ enc.ws[Len(enc.ws)][1] = GC02M1_SENSOR_MIRROR
       /\ enc.ws[Len(enc.ws)][2] =
            <<IF enc.val = 1 THEN GC02M1_SENSOR_MIRROR_V_FLIP
              ELSE GC02M1_SENSOR_MIRROR_NO_FLIP>>

\* The bytes an encoding run wrote to register reg.
WrittenTo(reg) == {enc.ws[j][2] : j \in {k \in 1..Len(enc.ws) : enc.ws[k][1] = reg}}

\* C30: test-pattern set writes the enable constant when the value enables
\* the pattern and the disable constant when the value is 0, on gc02m1
\* (0x11 / 0x10 at register 0x8c) and on s5k5e9 (0x2 / 0x0 at register
\* 0x0601).
C30_TestPatternConstant ==
  /\ EncDone("gc02m1", "test_pattern") =>
       WrittenTo(GC02M1_SENSOR_TEST_PATTERN) =
         {<<IF enc.val = 0 THEN GC02M1_SENSOR_TEST_PATTERN_DISABLE
            ELSE GC02M1_SENSOR_TEST_PATTERN_ENABLE>>}
  /\ EncDone("s5k5e9", "test_pattern") =>
       WrittenTo(S5K5E9_REG_TEST_PATTERN) =
         {<<IF enc.val = 0 THEN S5K5E9_REG_TEST_PATTERN_DISABLE
            ELSE S5K5E9_REG_TEST_PATTERN_ENABLE>>}

\* Thread t has returned from a set_control call.
SetCtrlReturned(t) == thr[t].pc = "ret" /\ thr[t].op = "set_ctrl"

\* C31: set_control on a device whose power reference count is zero performs
\* no register write, returns success and leaves the count at zero; on a
\* powered device the reference count after set_control equals the count
\* before it, on every return path.
C31_SetCtrlKeepsReferenceCount ==
  \A t \in Threads :
    SetCtrlReturned(t) =>
      /\ pm.usage = thr[t].pre.usage
      /\ thr[t].pre.usage = 0 =>
           thr[t].wr = <<>> /\ thr[t].ret = 0 /\ pm.usage = 0

\* A set_control on a device in use that wrote to the bus and returned an
\* error, the count as before.
C31_Witness ==
  \E t \in Threads :
    /\ SetCtrlReturned(t) /\ thr[t].pre.usage > 0
    /\ thr[t].wr # <<>> /\ thr[t].ret < 0 /\ pm.usage = thr[t].pre.usage

\* C32: gc02m1 set_control for exposure, gain, flip and test pattern
\* attempts all of its register writes and returns success even when some or
\* all of those bus writes fail, so the control replay of set_stream(true)
\* never fails because of a bus error on gc02m1.
C32_Gc02m1SetCtrlIgnoresBusErrors ==
  /\ \A id \in GC02M1_CIDS :
       EncDone("gc02m1", id) =>
         /\ enc.ret = 0
         /\ enc.ws = gc02m1_ctrl_writes(id, enc.val)
         /\ Len(enc.oks) = Len(enc.ws)
  /\ (enc.st = "replayed" /\ enc.v = "gc02m1") => enc.setup_ret = 0

\* A replay on a dead bus after a gc02m1 call all of whose writes failed.
C32_Witness ==
  /\ enc.st = "replayed" /\ enc.v = "gc02m1" /\ enc.f = DeadBus
  /\ enc.oks = <<FALSE>> /\ enc.ret = 0 /\ enc.setup_ret = 0

\* C33: gc8034 s_power(on) called when the power flag already equals the
\* requested state does nothing: no power reference is taken or released
\* and no register is written.
C33_SPowerSameStateIsNoOp ==
  [][\A t \in Threads :
       (/\ thr[t].pc = "gp_lock" /\ thr'[t].pc = "ret"
        /\ dev.power_on = (thr[t].arg = 1))
       => /\ pm' = pm /\ dev' = dev
          /\ thr'[t].wr = <<>> /\ thr'[t].ret = 0]_vars

\* s_power(1) has returned from a device whose power flag was already set:
\* nothing written, the reference count as before.
C33_Witness ==
  \E t \in Threads :
    /\ IsGc8034 /\ thr[t].pc = "ret" /\ thr[t].op = "s_power" /\ thr[t].arg = 1
    /\ dev.power_on /\ thr[t].wr = <<>> /\ thr[t].ret = 0
    /\ thr[t].held = 0 /\ pm.usage = thr[t].pre.usage /\ pm.usage > 0

\* C34: gc8034 gain encoding with a requested gain below the smallest
\* threshold (0x40) performs no register write and returns success; it does
\* not fall back to index 0.
C34_GainBelowFirstThreshold ==
  (EncGain /\ enc.val < gain_level[1]) => enc.ws = <<>> /\ enc.ret = 0

\* The gain just below the first threshold has been encoded.
C34_Witness ==
  /\ EncGain /\ enc.val = gain_level[1] - 1 /\ enc.ratio = 256
  /\ enc.ws = <<>> /\ enc.ret = 0

\* The registers of a gc8034 gain encoding, in issue order.
GainRegs ==
  <<254, 182, 177, 178,
    254, 32, 51, 254, 223, 231, 232, 233, 234, 235, 236, 237, 238, 254>>

\* C35: when gc8034 gain encoding selects an index, it issues exactly 18
\* register writes in a fixed order (page select 0xfe, gain index at 0xb6,
\* digital gain high byte at 0xb1 and low byte at 0xb2, then the 14
\* auxiliary bytes of that index) and attempts all of them even after one
\* has failed; it returns nonzero when any write failed.
C35_GainWritesAllEighteen ==
  (EncGain /\ enc.val >= gain_level[1]) =>
    /\ Len(enc.ws) = 18 /\ Len(enc.oks) = 18
    /\ EncRegs = GainRegs
    /\ enc.ws[1][2] = <<0>>
    /\ enc.ws[2][2][1] \in 0..(MAX_AG_INDEX - 1)
    /\ \A j \in 1..AGC_REG_NUM :
         enc.ws[4 + j][2] = <<agc_register[enc.ws[2][2][1] + 1][j]>>
    /\ (enc.ret # 0) <=> (\E j \in 1..18 : ~enc.oks[j])

\* A gain encoding whose second write failed: the other seventeen were made
\* and answered, the call returned an error.
C35_Witness ==
  /\ EncGain /\ enc.val = gain_level[3] /\ Len(enc.oks) = 18
  /\ ~enc.oks[2] /\ \A j \in (1..18) \ {2} : enc.oks[j]
  /\ enc.ret < 0

\* No operation is in progress and the driver is bound.
AtRest == (\A t \in Threads : thr[t].pc = "idle") /\ pm.status # "disabled"

Flag(b) == IF b THEN 1 ELSE 0

\* C36: on gc8034, in every reachable state in which no operation is in
\* progress, the power reference count equals (1 if the streaming flag is
\* set, else 0) + (1 if the explicit power flag is set, else 0), after any
\* sequence of s_stream, s_power and set_control calls with or without
\* failures.
C36_CountIsStreamingPlusPower ==
  (IsGc8034 /\ AtRest) =>
    pm.usage = Flag(dev.streaming) + Flag(dev.power_on)

\* Clock and supplies of the sensor are disabled.
PhysicallyOff == pm.hw.clk = 0 /\ pm.hw.supply = 0

\* C37: in every reachable state in which no operation is in progress and
\* the power reference count is zero, the device is physically powered off
\* (clock and supplies disabled), including after a failed s_power(1) or a
\* failed set_stream(true).
C37_ZeroCountMeansPoweredOff ==
  (AtRest /\ pm.usage = 0) => PhysicallyOff

\* The positions of a call between a mutex_lock and the matching
\* mutex_unlock.
MutexHeldAt == {"rs_common", "rs_mode", "rs_ctrl", "rs_start", "gs_body", "gs_start"}

ModeWrites(t) == SelectSeq(thr[t].wr, LAMBDA w : w.src = "mode")

\* The writes that apply the table of catalog entry 0 without a failure.
Entry0Writes == gc02m1_write_table(mode_1600x1200, NoFault, "mode").bus

\* C39: on gc02m1 every requested size and the stored format resolve to
\* catalog entry 0 (index 1 here), and in every reachable state the mode-table
\* writes a start-streaming has issued are the leading writes of entry 0's
\* table, never those of mode_1600x1200_custom1.
C39_StartStreamingAppliesEntryZero ==
  cfg.variant = "gc02m1" =>
    /\ find_nearest(gc02m1_modes, dev.fmt[1], dev.fmt[2]) = 1
    /\ \A t \in Threads :
         /\ (thr[t].op = "set_fmt" /\ thr[t].pc = "ret") =>
              find_nearest(gc02m1_modes, thr[t].arg[1], thr[t].arg[2]) = 1
         /\ Len(ModeWrites(t)) <= Len(Entry0Writes)
         /\ \A i \in 1..Len(ModeWrites(t)) :
              /\ ModeWrites(t)[i].addr = Entry0Writes[i].addr
              /\ ModeWrites(t)[i].vals = Entry0Writes[i].vals

\* A start-streaming on gc02m1 has applied the whole mode table and returned
\* success, and the table of entry 1 starts with another write.
C39_Witness ==
  /\ cfg.variant = "gc02m1"
  /\ \E t \in Threads :
       /\ thr[t].pc = "ret" /\ thr[t].op = "s_stream" /\ thr[t].arg = 1
       /\ thr[t].ret = 0
       /\ Len(ModeWrites(t)) = Len(Entry0Writes)
       /\ \A i \in 1..Len(Entry0Writes) : ModeWrites(t)[i].ok
  /\ gc02m1_write_table(mode_1600x1200_custom1, NoFault, "mode").bus[1].addr
       # Entry0Writes[1].addr
====
